---------------------------- MODULE Spec2Model ----------------------------
(***************************************************************************)
(* LocalAssistant: the tool-calling core.  The model covers the response   *)
(* extractor (parseAIResponse, extractAndParseJSON), the tool dispatcher   *)
(* (executeFunction and the four tool implementations), the prompt         *)
(* orchestrator (processPrompt, direct and conversational mode), the /tool *)
(* command handler (handleToolCommand) and the chat session loop           *)
(* (startChatSession: processCommand, askQuestion).                        *)
(*                                                                         *)
(* Text.  A JavaScript string is a sequence of tokens [t, v]: t is the     *)
(* class of a run of characters and v the run itself.  Two token           *)
(* sequences stand for the same string only if they are equal: no token    *)
(* of the alphabets used below is the concatenation of others, but for     *)
(* the two halves "cut1" and "cut2" of a delimiter or of a JSON string     *)
(* that a chunk boundary of the stream has cut; StrConcat joins them.      *)
(*   response text:  "start" / "end"  the two call delimiters              *)
(*                   "prose"          characters that are no JSON          *)
(*                   "ws"             JSON whitespace                      *)
(*                   "p"              one of  { } [ ] : ,                  *)
(*                   "str" "num" "lit" a JSON string, number, literal      *)
(*   command line:   "word"           a run of [a-zA-Z0-9_]                *)
(*                   "eq" "quote"     the characters = and "               *)
(*                   "ws"             a run of whitespace                  *)
(*                   "other"          a run of other non-blank characters  *)
(***************************************************************************)
EXTENDS Integers, Sequences, FiniteSets, TLC

Tok(t, v) == [t |-> t, v |-> v]

START == Tok("start", "<<__FUNCTION_CALL_8X7__>>")
END == Tok("end", "<</__FUNCTION_CALL_8X7__>>")
Sp == Tok("ws", " ")
W(v) == Tok("word", v)
Pr(v) == Tok("prose", v)
P(v) == Tok("p", v)
Str(v) == Tok("str", v)
Num(v) == Tok("num", v)
Lit(v) == Tok("lit", v)

\* the two halves of a delimiter or of a JSON string cut by a chunk boundary
Cut1(tok) == Tok("cut1", tok.v)
Cut2(tok) == Tok("cut2", tok.v)
Uncut(v) ==
  Tok(IF v = START.v THEN "start" ELSE IF v = END.v THEN "end" ELSE "str", v)

\* a + b: the characters of a followed by those of b
StrConcat(a, b) ==
  IF a # <<>> /\ b # <<>> /\ a[Len(a)] = Cut1(b[1]) /\ b[1] = Cut2(b[1])
    THEN SubSeq(a, 1, Len(a) - 1) \o <<Uncut(b[1].v)>> \o Tail(b)
  ELSE a \o b

RECURSIVE Flatten(_)
\* the concatenation of a sequence of strings
Flatten(ss) == IF ss = <<>> THEN <<>> ELSE Head(ss) \o Flatten(Tail(ss))

RECURSIVE SelectIdx(_, _, _)
\* the least index i >= from with s[i].t = t, or 0
SelectIdx(s, t, from) ==
  IF from > Len(s) THEN 0
  ELSE IF s[from].t = t THEN from
  ELSE SelectIdx(s, t, from + 1)

NoWs(s) == SelectSeq(s, LAMBDA k : k.t # "ws")

RECURSIVE TrimLeft(_)
TrimLeft(s) == IF s # <<>> /\ Head(s).t = "ws" THEN TrimLeft(Tail(s)) ELSE s

RECURSIVE TrimRight(_)
TrimRight(s) ==
  IF s # <<>> /\ s[Len(s)].t = "ws" THEN TrimRight(SubSeq(s, 1, Len(s) - 1)) ELSE s

\* String.prototype.trim
Trim(s) == TrimRight(TrimLeft(s))

(***************************************************************************)
(* JavaScript values, as JSON.parse builds them.  k is the kind, s the     *)
(* characters of a string or number (a token sequence of the command-line  *)
(* alphabet), items the elements of an array (key "") or the members of an *)
(* object, in document order.                                              *)
(***************************************************************************)
Val(k, s, items) == [k |-> k, s |-> s, items |-> items]
Undefined == Val("undefined", <<>>, <<>>)
Null == Val("null", <<>>, <<>>)
StrV(s) == Val("str", s, <<>>)
NumV(n) == Val("num", <<Tok("num", n)>>, <<>>)
BoolV(b) == Val(b, <<>>, <<>>)
ArrV(vs) == Val("arr", <<>>, [i \in 1..Len(vs) |-> [key |-> "", val |-> vs[i]]])
ObjV(ms) == Val("obj", <<>>, ms)
Member(k, v) == [key |-> k, val |-> v]

\* the characters of the JSON string literal written "a": the literals of
\* more than one run of characters are listed, every other one is one word
StrText(a) ==
  CASE a = "" -> <<>>
    [] a = "New York" -> <<W("New"), Sp, W("York")>>
    [] a = "a  b" -> <<W("a"), Tok("ws", "  "), W("b")>>
    [] OTHER -> <<W(a)>>

\* {parameterName: n, parameterValue: v}, n and v strings
ParamV(n, v) == ObjV(<<Member("parameterName", StrV(n)), Member("parameterValue", StrV(v))>>)

RECURSIVE GetLast(_, _)
GetLast(ms, key) ==
  IF ms = <<>> THEN Undefined
  ELSE IF ms[Len(ms)].key = key THEN ms[Len(ms)].val
  ELSE GetLast(SubSeq(ms, 1, Len(ms) - 1), key)

\* v.key for a value that is neither null nor undefined: an own property of
\* an object (JSON.parse keeps the last of duplicate members), else undefined
Get(v, key) == IF v.k = "obj" THEN GetLast(v.items, key) ELSE Undefined

\* ToBoolean
Truthy(v) ==
  CASE v.k \in {"undefined", "null", "false"} -> FALSE
    [] v.k = "str" -> v.s # <<>>
    [] v.k = "num" -> v.s # <<Tok("num", "0")>>
    [] OTHER -> TRUE

IsArray(v) == v.k = "arr"
Elems(v) == [i \in 1..Len(v.items) |-> v.items[i].val]

(***************************************************************************)
(* JSON.parse over the tokens of a text: whitespace between tokens is      *)
(* insignificant, every other token that is no JSON token is a syntax      *)
(* error, and the whole text must be one value.                            *)
(***************************************************************************)
PFail == [ok |-> FALSE, val |-> Undefined, next |-> 0]
POk(v, n) == [ok |-> TRUE, val |-> v, next |-> n]
IsP(s, i, c) == i <= Len(s) /\ s[i].t = "p" /\ s[i].v = c

RECURSIVE ParseValue(_, _)
RECURSIVE ParseElements(_, _, _)
RECURSIVE ParseMembers(_, _, _)

ParseValue(s, i) ==
  IF i > Len(s) THEN PFail
  ELSE CASE s[i].t = "str" -> POk(StrV(StrText(s[i].v)), i + 1)
         [] s[i].t = "num" -> POk(NumV(s[i].v), i + 1)
         [] s[i].t = "lit" ->
              POk(IF s[i].v = "null" THEN Null ELSE BoolV(s[i].v), i + 1)
         [] IsP(s, i, "[") ->
              IF IsP(s, i + 1, "]") THEN POk(ArrV(<<>>), i + 2)
              ELSE ParseElements(s, i + 1, <<>>)
         [] IsP(s, i, "{") ->
              IF IsP(s, i + 1, "}") THEN POk(ObjV(<<>>), i + 2)
              ELSE ParseMembers(s, i + 1, <<>>)
         [] OTHER -> PFail

ParseElements(s, i, acc) ==
  LET r == ParseValue(s, i) IN
  IF ~r.ok THEN PFail
  ELSE IF IsP(s, r.next, ",") THEN ParseElements(s, r.next + 1, Append(acc, r.val))
  ELSE IF IsP(s, r.next, "]") THEN POk(ArrV(Append(acc, r.val)), r.next + 1)
  ELSE PFail

ParseMembers(s, i, acc) ==
  IF ~(i <= Len(s) /\ s[i].t = "str" /\ IsP(s, i + 1, ":")) THEN PFail
  ELSE LET r == ParseValue(s, i + 2) IN
       IF ~r.ok THEN PFail
       ELSE IF IsP(s, r.next, ",")
              THEN ParseMembers(s, r.next + 1, Append(acc, Member(s[i].v, r.val)))
       ELSE IF IsP(s, r.next, "}")
              THEN POk(ObjV(Append(acc, Member(s[i].v, r.val))), r.next + 1)
       ELSE PFail

\* JSON.parse(text): [ok, val]; ~ok is a SyntaxError
JSONParse(text) ==
  LET s == NoWs(text)
      r == ParseValue(s, 1)
  IN IF r.ok /\ r.next = Len(s) + 1 THEN [ok |-> TRUE, val |-> r.val]
     ELSE [ok |-> FALSE, val |-> Undefined]

(***************************************************************************)
(* Completions: what a call returns or throws.                             *)
(***************************************************************************)
Returned(v) == [c |-> "return", val |-> v, code |-> ""]
Threw(c, code) == [c |-> c, val |-> Undefined, code |-> code]
ToolError(code) == Threw("ToolError", code)

\* a parser that keeps the function name and loses the parameters
parseAIResponseNameOnly(response) ==
  LET j == JSONParse(response) IN
  IF ~j.ok THEN Threw("SyntaxError", "")
  ELSE IF j.val.k = "null" THEN Threw("TypeError", "")
  ELSE IF ~Truthy(Get(j.val, "functionName")) \/ ~IsArray(Get(j.val, "parameters"))
         THEN Threw("Error", "Invalid AI response format")
  ELSE Returned(Val("obj", <<>>, <<[key |-> "functionName", val |-> Get(j.val, "functionName")],
                                   [key |-> "parameters", val |-> Val("arr", <<>>, <<>>)]>>))

\* parseAIResponse(response)
parseAIResponse(response) ==
  LET j == JSONParse(response) IN
  IF ~j.ok THEN Threw("SyntaxError", "")
  ELSE IF j.val.k = "null" THEN Threw("TypeError", "")
  ELSE IF ~Truthy(Get(j.val, "functionName")) \/ ~IsArray(Get(j.val, "parameters"))
         THEN Threw("Error", "Invalid AI response format")
  ELSE Returned(j.val)

\* a match that takes the last START an END follows
DelimiterMatchLastPair(text) ==
  LET starts == {i \in 1..Len(text) :
                   text[i].t = "start" /\ \E j \in (i + 1)..Len(text) : text[j].t = "end"}
      st == CHOOSE i \in starts : \A k \in starts : k <= i
  IN IF starts = {} THEN <<0, 0>> ELSE <<st, SelectIdx(text, "end", st + 1)>>

\* a match that takes the end of the text for a missing END
DelimiterMatchOpenEnded(text) ==
  LET st == SelectIdx(text, "start", 1)
      en == IF st = 0 THEN 0 ELSE SelectIdx(text, "end", st + 1)
  IN IF st = 0 THEN <<0, 0>>
     ELSE IF en = 0 THEN <<st, Len(text) + 1>>
     ELSE <<st, en>>

\* text.match(START([\s\S]*?)END): the first START that an END follows, and
\* the text up to the first END after it; <<0, 0>> when there is no match
DelimiterMatch(text) ==
  LET st == SelectIdx(text, "start", 1)
      en == IF st = 0 THEN 0 ELSE SelectIdx(text, "end", st + 1)
  IN IF en = 0 THEN <<0, 0>> ELSE <<st, en>>

\* extractAndParseJSON(text): Returned(Null) is "no call present"
extractAndParseJSON(text) ==
  LET m == DelimiterMatch(text) IN
  IF m[1] = 0 THEN Returned(Null)
  ELSE LET r == parseAIResponse(SubSeq(text, m[1] + 1, m[2] - 1)) IN
       IF r.c = "SyntaxError" THEN Returned(Null) ELSE r

(***************************************************************************)
(* The tool registry: the descriptors (TOOLS, in registration order) and   *)
(* the implementations.                                                    *)
(***************************************************************************)
ParameterSpec(n, req) == [name |-> <<W(n)>>, required |-> req]
Tool(n, ps) == [name |-> <<W(n)>>, parameters |-> ps]

WeatherFromLocation == Tool("WeatherFromLocation", <<ParameterSpec("location", TRUE)>>)
\* a descriptor that leaves the longitude optional
WeatherFromLatLonLongitudeOptional ==
  Tool("WeatherFromLatLon", <<ParameterSpec("latitude", TRUE), ParameterSpec("longitude", FALSE)>>)

WeatherFromLatLon ==
  Tool("WeatherFromLatLon", <<ParameterSpec("latitude", TRUE), ParameterSpec("longitude", TRUE)>>)
LatLonToCity ==
  Tool("LatLonToCity", <<ParameterSpec("latitude", TRUE), ParameterSpec("longitude", TRUE)>>)
WebSearch == Tool("WebSearch", <<ParameterSpec("query", TRUE)>>)

\* Object.values(TOOLS)
TOOLS == <<WeatherFromLocation, WeatherFromLatLon, LatLonToCity, WebSearch>>

\* the own keys of toolImplementations
toolImplementations ==
  {<<W("WeatherFromLocation")>>, <<W("WeatherFromLatLon")>>, <<W("LatLonToCity")>>,
   <<W("WebSearch")>>}

(***************************************************************************)
(* The registry of the tools module: registerTool and the exported list.   *)
(* toolRegistry is an object whose keys are tool names; its entries are    *)
(* kept here in the order of its keys, which for names that are no array   *)
(* index is the order in which the keys were created.                      *)
(***************************************************************************)
\* the definition of ReadFile
ReadFile == Tool("ReadFile", <<ParameterSpec("path", TRUE)>>)

Registration(definition, implementation) ==
  [definition |-> definition, implementation |-> implementation]

\* the calls of registerTool the module makes when it is loaded
ModuleRegistrations ==
  <<Registration(WeatherFromLocation, "WeatherFromLocationImpl"),
    Registration(WeatherFromLatLon, "WeatherFromLatLonImpl"),
    Registration(LatLonToCity, "LatLonToCityImpl"),
    Registration(WebSearch, "WebSearchImpl"),
    Registration(ReadFile, "ReadFileImpl")>>

RegistryEntry(definition, implementation) ==
  [name |-> definition.name, definition |-> definition, implementation |-> implementation]

\* a registration that always adds an entry
registerToolAppends(registry, definition, implementation) ==
  Append(registry, RegistryEntry(definition, implementation))

\* registerTool(definition, implementation):
\* toolRegistry[definition.name] = { definition, implementation }
registerTool(registry, definition, implementation) ==
  IF \E i \in 1..Len(registry) : registry[i].name = definition.name
    THEN [i \in 1..Len(registry) |->
            IF registry[i].name = definition.name
              THEN RegistryEntry(definition, implementation)
            ELSE registry[i]]
  ELSE Append(registry, RegistryEntry(definition, implementation))

RECURSIVE RegisterAll(_, _)
\* the registry after the first n of the calls
RegisterAll(calls, n) ==
  IF n = 0 THEN <<>>
  ELSE registerTool(RegisterAll(calls, n - 1), calls[n].definition, calls[n].implementation)

\* Object.values(TOOLS), TOOLS being Object.fromEntries of the entries of
\* the registry mapped to their definitions
listDescriptors(registry) == [i \in 1..Len(registry) |-> registry[i].definition]

\* the properties every object literal inherits from Object.prototype
ObjectPrototype ==
  {<<W("constructor")>>, <<W("toString")>>, <<W("toLocaleString")>>, <<W("valueOf")>>,
   <<W("hasOwnProperty")>>, <<W("isPrototypeOf")>>, <<W("propertyIsEnumerable")>>,
   <<W("__proto__")>>}

RECURSIVE ToStringText(_)
RECURSIVE JoinText(_, _)
\* ToString(v), the conversion of a property key and of a template literal
ToStringText(v) ==
  CASE v.k \in {"str", "num"} -> v.s
    [] v.k = "arr" -> JoinText(Elems(v), 1)
    [] v.k = "obj" -> <<Tok("other", "[object Object]")>>
    [] OTHER -> <<W(v.k)>>

\* Array.prototype.join from element i on: null and undefined give ""
JoinText(es, i) ==
  IF i > Len(es) THEN <<>>
  ELSE (IF es[i].k \in {"null", "undefined"} THEN <<>> ELSE ToStringText(es[i]))
       \o (IF i < Len(es) THEN <<Tok("other", ",")>> ELSE <<>>)
       \o JoinText(es, i + 1)

RECURSIVE FindParameter(_, _, _)
\* parameters.find(p => p.parameterName === parameterName), from element i on
FindParameter(parameterName, es, i) ==
  IF i > Len(es) THEN ToolError("MISSING_PARAMETER")
  ELSE IF es[i].k \in {"null", "undefined"} THEN Threw("TypeError", "")
  ELSE IF Get(es[i], "parameterName") = StrV(parameterName)
         THEN Returned(Get(es[i], "parameterValue"))
  ELSE FindParameter(parameterName, es, i + 1)

\* a lookup that scans the list from its last entry
getParameterValueLast(parameterName, parameters) ==
  LET es == Elems(parameters) IN
  IF ~IsArray(parameters) THEN Threw("TypeError", "")
  ELSE FindParameter(parameterName, [i \in 1..Len(es) |-> es[Len(es) + 1 - i]], 1)

\* getParameterValue(parameterName, parameters): a value that is no array
\* has no find method, and calling it throws a TypeError
getParameterValue(parameterName, parameters) ==
  IF ~IsArray(parameters) THEN Threw("TypeError", "")
  ELSE FindParameter(parameterName, Elems(parameters), 1)

(***************************************************************************)
(* ApiService.  What the providers answer is the world w: for each         *)
(* operation what its fetch does, and the data of an answer.  A fetch is   *)
(* "ok" (status 2xx, a body with results), "empty" (status 2xx, a body     *)
(* with no result), "status" (another status), "transport" (fetch rejects) *)
(* or "badbody" (status 2xx, response.json() rejects).                     *)
(***************************************************************************)
World(geo, weather, rev, search, coords, temp) ==
  [geo |-> geo, weather |-> weather, rev |-> rev, search |-> search,
   coords |-> coords, temp |-> temp]

\* the worlds with one failing operation, the failure drawn from fs (the
\* weather provider answers one record, there is no empty result set)
FailingWorlds(fs) ==
  {World(g, "ok", "ok", "ok", <<"51.5", "-0.12">>, "72.5") : g \in fs}
  \cup {World("ok", f, "ok", "ok", <<"51.5", "-0.12">>, "72.5") : f \in fs \ {"empty"}}
  \cup {World("ok", "ok", r, "ok", <<"51.5", "-0.12">>, "72.5") : r \in fs}
  \cup {World("ok", "ok", "ok", s, <<"51.5", "-0.12">>, "72.5") : s \in fs}

\* the worlds of a chat session
ApiWorlds ==
  {World("ok", "ok", "ok", "ok", c, t) :
     c \in {<<"51.5", "-0.12">>, <<"40.7", "-74.0">>}, t \in {"72.5", "31"}}
  \cup FailingWorlds({"status", "empty"})

\* the worlds of one call of processPrompt
AllApiWorlds == ApiWorlds \cup FailingWorlds({"transport", "badbody"})

\* a call of an ApiService operation: its arguments and what its fetch did
ApiCall(op, args, fetch) == [op |-> op, args |-> args, fetch |-> fetch]

\* a ToolError of ApiService, its message in val
ApiError(code, message) ==
  [c |-> "ToolError", val |-> StrV(<<Tok("other", message)>>), code |-> code]

\* apiCall(url, errorCode): the ToolError thrown for a status that is not ok
\* is rethrown by the catch block, every other failure is wrapped
apiCallRewraps(fetch, errorCode) ==
  IF fetch \in {"status", "transport", "badbody"}
    THEN ApiError(errorCode, "Failed to fetch data")
  ELSE Returned(Undefined)

apiCall(fetch, errorCode) ==
  CASE fetch = "status" -> ApiError(errorCode, "API request failed with status")
    [] fetch \in {"transport", "badbody"} -> ApiError(errorCode, "Failed to fetch data")
    [] OTHER -> Returned(Undefined)

\* ApiService.getCityCoordinates(city)
getCityCoordinates(w, city) ==
  LET response == apiCall(w.geo, "GEOCODING_ERROR") IN
  IF response.c # "return" THEN response
  ELSE IF w.geo = "empty" THEN ApiError("CITY_NOT_FOUND", "No coordinates found for city")
  ELSE Returned(ArrV(<<StrV(<<W(w.coords[1])>>), StrV(<<W(w.coords[2])>>)>>))

\* ApiService.getCityFromCoordinates(latitude, longitude)
getCityFromCoordinates(w, latitude, longitude) ==
  LET response == apiCall(w.rev, "REVERSE_GEOCODING_ERROR") IN
  IF response.c # "return" THEN response
  ELSE IF w.rev = "empty"
    THEN ApiError("LOCATION_NOT_FOUND", "No location found for coordinates")
  ELSE Returned(StrV(<<W("Chicago")>>))

\* ApiService.getWeather(latitude, longitude)
getWeather(w, latitude, longitude) ==
  LET response == apiCall(w.weather, "WEATHER_ERROR") IN
  IF response.c # "return" THEN response
  ELSE Returned(NumV(w.temp))

\* ApiService.webSearch(query)
webSearch(w, query) ==
  LET response == apiCall(w.search, "SEARCH_ERROR") IN
  IF response.c # "return" THEN response
  ELSE IF w.search = "empty"
    THEN ApiError("NO_SEARCH_RESULTS", "No results found for query")
  ELSE Returned(ObjV(<<Member("title", StrV(<<W("Title")>>)),
                       Member("content", StrV(<<W("Content")>>))>>))

(***************************************************************************)
(* An execution: the completion of a tool call, the API calls it made in   *)
(* order, and the implementation that ran ("" when none did).              *)
(***************************************************************************)
Exec(comp, calls, impl) ==
  [c |-> comp.c, val |-> comp.val, code |-> comp.code, calls |-> calls, impl |-> impl]

DegreesFahrenheit(temperature) ==
  StrV(ToStringText(temperature) \o <<Sp, W("degrees"), Sp, W("Fahrenheit")>>)

\* an implementation that asks for the weather whatever geocoding gave,
\* with the coordinates in the order longitude, latitude
WeatherFromLocationImplUnordered(parameters, w) ==
  LET location == getParameterValue(<<W("location")>>, parameters)
      geo == getCityCoordinates(w, location.val)
      c1 == <<ApiCall("getCityCoordinates", <<location.val>>, w.geo)>>
      lat == StrV(<<W(w.coords[2])>>)
      lon == StrV(<<W(w.coords[1])>>)
      temperature == getWeather(w, lat, lon)
      c2 == Append(c1, ApiCall("getWeather", <<lat, lon>>, w.weather))
  IN IF location.c # "return" THEN Exec(location, <<>>, "WeatherFromLocation")
     ELSE IF geo.c # "return" THEN Exec(geo, c2, "WeatherFromLocation")
     ELSE IF temperature.c # "return" THEN Exec(temperature, c2, "WeatherFromLocation")
     ELSE Exec(Returned(DegreesFahrenheit(temperature.val)), c2, "WeatherFromLocation")

WeatherFromLocationImpl(parameters, w) ==
  LET location == getParameterValue(<<W("location")>>, parameters)
      geo == getCityCoordinates(w, location.val)
      c1 == <<ApiCall("getCityCoordinates", <<location.val>>, w.geo)>>
      lat == Elems(geo.val)[1]
      lon == Elems(geo.val)[2]
      temperature == getWeather(w, lat, lon)
      c2 == Append(c1, ApiCall("getWeather", <<lat, lon>>, w.weather))
  IN IF location.c # "return" THEN Exec(location, <<>>, "WeatherFromLocation")
     ELSE IF geo.c # "return" THEN Exec(geo, c1, "WeatherFromLocation")
     ELSE IF temperature.c # "return" THEN Exec(temperature, c2, "WeatherFromLocation")
     ELSE Exec(Returned(DegreesFahrenheit(temperature.val)), c2, "WeatherFromLocation")

WeatherFromLatLonImpl(parameters, w) ==
  LET latitude == getParameterValue(<<W("latitude")>>, parameters)
      longitude == getParameterValue(<<W("longitude")>>, parameters)
      temperature == getWeather(w, latitude.val, longitude.val)
      c1 == <<ApiCall("getWeather", <<latitude.val, longitude.val>>, w.weather)>>
  IN IF latitude.c # "return" THEN Exec(latitude, <<>>, "WeatherFromLatLon")
     ELSE IF longitude.c # "return" THEN Exec(longitude, <<>>, "WeatherFromLatLon")
     ELSE IF temperature.c # "return" THEN Exec(temperature, c1, "WeatherFromLatLon")
     ELSE Exec(Returned(DegreesFahrenheit(temperature.val)), c1, "WeatherFromLatLon")

LatLonToCityImpl(parameters, w) ==
  LET latitude == getParameterValue(<<W("latitude")>>, parameters)
      longitude == getParameterValue(<<W("longitude")>>, parameters)
      cityName == getCityFromCoordinates(w, latitude.val, longitude.val)
      c1 == <<ApiCall("getCityFromCoordinates", <<latitude.val, longitude.val>>, w.rev)>>
  IN IF latitude.c # "return" THEN Exec(latitude, <<>>, "LatLonToCity")
     ELSE IF longitude.c # "return" THEN Exec(longitude, <<>>, "LatLonToCity")
     ELSE Exec(cityName, c1, "LatLonToCity")

WebSearchImpl(parameters, w) ==
  LET query == getParameterValue(<<W("query")>>, parameters)
      result == webSearch(w, query.val)
      c1 == <<ApiCall("webSearch", <<query.val>>, w.search)>>
  IN IF query.c # "return" THEN Exec(query, <<>>, "WebSearch")
     ELSE Exec(result, c1, "WebSearch")

\* toolImplementations[functionName]: "own" for a registered implementation,
\* "inherited" for a property of Object.prototype, "undefined" otherwise
LookupImplementation(functionName) ==
  LET key == ToStringText(functionName) IN
  IF key \in toolImplementations THEN "own"
  ELSE IF key \in ObjectPrototype THEN "inherited"
  ELSE "undefined"

\* implementation(parameters) for an inherited property, called with no
\* receiver: Object.prototype.toString returns a string, the Object
\* constructor returns its argument, the others throw a TypeError
CallInherited(key, parameters) ==
  CASE key = <<W("toString")>> ->
         Exec(Returned(StrV(<<Tok("other", "[object Undefined]")>>)), <<>>, "Object.prototype")
    [] key = <<W("constructor")>> -> Exec(Returned(parameters), <<>>, "Object.prototype")
    [] OTHER -> Exec(Threw("TypeError", ""), <<>>, "Object.prototype")

\* a dispatcher that catches what the implementation throws and throws an
\* error of its own in its place
executeFunctionWrapping(functionName, parameters, w) ==
  LET key == ToStringText(functionName)
      implementation == LookupImplementation(functionName)
      x == CASE implementation = "undefined" -> Exec(ToolError("UNKNOWN_FUNCTION"), <<>>, "")
             [] implementation = "inherited" -> CallInherited(key, parameters)
             [] key = <<W("WeatherFromLocation")>> -> WeatherFromLocationImpl(parameters, w)
             [] key = <<W("WeatherFromLatLon")>> -> WeatherFromLatLonImpl(parameters, w)
             [] key = <<W("LatLonToCity")>> -> LatLonToCityImpl(parameters, w)
             [] OTHER -> WebSearchImpl(parameters, w)
  IN IF x.c = "ToolError" /\ x.impl # ""
       THEN Exec(ToolError("EXECUTION_ERROR"), x.calls, x.impl)
     ELSE x

\* executeFunction(functionName, parameters)
executeFunction(functionName, parameters, w) ==
  LET key == ToStringText(functionName)
      implementation == LookupImplementation(functionName)
  IN CASE implementation = "undefined" -> Exec(ToolError("UNKNOWN_FUNCTION"), <<>>, "")
       [] implementation = "inherited" -> CallInherited(key, parameters)
       [] key = <<W("WeatherFromLocation")>> -> WeatherFromLocationImpl(parameters, w)
       [] key = <<W("WeatherFromLatLon")>> -> WeatherFromLatLonImpl(parameters, w)
       [] key = <<W("LatLonToCity")>> -> LatLonToCityImpl(parameters, w)
       [] OTHER -> WebSearchImpl(parameters, w)

(***************************************************************************)
(* Console reports and results.                                            *)
(***************************************************************************)
Report(kind, code, text) == [kind |-> kind, code |-> code, text |-> text]

\* the characters of a JSON string literal: the literal that is written so
StrAtoms == {"", "New York", "a  b", "Title", "Content", "London", "cats", "location",
             "query", "latitude", "longitude", "41", "87", "WeatherFromLocation",
             "WeatherFromLatLon", "LatLonToCity", "WebSearch", "UnknownTool", "toString",
             "constructor", "__proto__"}
StrAtom(text) ==
  IF \E a \in StrAtoms : StrText(a) = text THEN CHOOSE a \in StrAtoms : StrText(a) = text
  ELSE "?"

NL == Tok("ws", "\n")

RECURSIVE Stringify(_)
RECURSIVE StringifyItems(_, _, _)
\* JSON.stringify(v, null, 2): each run of line break and indentation is NL
Stringify(v) ==
  CASE v.k = "str" -> <<Str(StrAtom(v.s))>>
    [] v.k = "num" -> <<Num(v.s[1].v)>>
    [] v.k \in {"null", "true", "false"} -> <<Lit(v.k)>>
    [] v.k = "arr" ->
         IF v.items = <<>> THEN <<P("["), P("]")>>
         ELSE <<P("[")>> \o StringifyItems(v.items, 1, FALSE) \o <<NL, P("]")>>
    [] v.k = "obj" ->
         IF v.items = <<>> THEN <<P("{"), P("}")>>
         ELSE <<P("{")>> \o StringifyItems(v.items, 1, TRUE) \o <<NL, P("}")>>
    [] OTHER -> <<>>

StringifyItems(items, i, keyed) ==
  IF i > Len(items) THEN <<>>
  ELSE <<NL>>
       \o (IF keyed THEN <<Str(items[i].key), P(":"), Sp>> ELSE <<>>)
       \o Stringify(items[i].val)
       \o (IF i < Len(items) THEN <<P(",")>> ELSE <<>>)
       \o StringifyItems(items, i + 1, keyed)

\* typeof result === 'string' ? result : JSON.stringify(result, null, 2)
ResultStr(result) == IF result.k = "str" THEN result.s ELSE Stringify(result)

(***************************************************************************)
(* handleToolCommand.                                                      *)
(***************************************************************************)
Cmd(v) == Tok("cmd", v)
Eq == Tok("eq", "=")
Quote == Tok("quote", "\"")

Turn(role, content) == [role |-> role, content |-> content]
CHAT_SYSTEM_PROMPT == <<Tok("prompt", "CHAT_SYSTEM_PROMPT")>>

RECURSIVE RunEnd(_, _, _)
\* the first index >= i whose token is outside the class (of the word
\* characters when word, of the non-blank characters otherwise)
RunEnd(s, i, word) ==
  IF i > Len(s) THEN i
  ELSE IF (word /\ s[i].t = "word") \/ (~word /\ s[i].t # "ws") THEN RunEnd(s, i + 1, word)
  ELSE i

RECURSIVE SplitWs(_)
\* s.split(/\s+/) of a trimmed string
SplitWs(s) ==
  IF s = <<>> THEN << <<>> >>
  ELSE LET e == RunEnd(s, 1, FALSE) IN
       IF e > Len(s) THEN <<s>>
       ELSE <<SubSeq(s, 1, e - 1)>> \o SplitWs(TrimLeft(SubSeq(s, e, Len(s))))

RECURSIVE JoinSp(_)
\* parts.join(' ')
JoinSp(parts) ==
  IF parts = <<>> THEN <<>>
  ELSE IF Len(parts) = 1 THEN parts[1]
  ELSE parts[1] \o <<Sp>> \o JoinSp(Tail(parts))

RECURSIVE ExecParamRegex(_, _, _)
\* the loop over /([a-zA-Z0-9_]+)=(?:"([^"]*)"|([\S]+))/g from index i on:
\* the (parameterName, parameterValue) pairs of the matches, in order
ExecParamRegex(s, i, acc) ==
  IF i > Len(s) THEN acc
  ELSE IF s[i].t # "word" THEN ExecParamRegex(s, i + 1, acc)
  ELSE LET j == RunEnd(s, i, TRUE)
           q == IF j + 1 <= Len(s) /\ s[j + 1].t = "quote"
                  THEN SelectIdx(s, "quote", j + 2) ELSE 0
           e == RunEnd(s, j + 1, FALSE)
       IN IF ~(j <= Len(s) /\ s[j].t = "eq") THEN ExecParamRegex(s, j, acc)
          ELSE IF q # 0
                 THEN ExecParamRegex(s, q + 1,
                        Append(acc, <<SubSeq(s, i, j - 1), SubSeq(s, j + 2, q - 1)>>))
          ELSE IF e > j + 1
                 THEN ExecParamRegex(s, e,
                        Append(acc, <<SubSeq(s, i, j - 1), SubSeq(s, j + 1, e - 1)>>))
          ELSE ExecParamRegex(s, j + 1, acc)

\* command.substring(5).trim().split(/\s+/), command starting with /tool
ToolCommandParts(command) == SplitWs(Trim(Tail(command)))

\* a parameters array built with unshift in the place of push
ToolCommandParametersReversed(command) ==
  LET pairs == ExecParamRegex(JoinSp(Tail(ToolCommandParts(command))), 1, <<>>)
      n == Len(pairs)
  IN [i \in 1..n |-> ParamV(pairs[n + 1 - i][1], pairs[n + 1 - i][2])]

\* the parameters array handleToolCommand builds
ToolCommandParameters(command) ==
  LET pairs == ExecParamRegex(JoinSp(Tail(ToolCommandParts(command))), 1, <<>>)
  IN [i \in 1..Len(pairs) |-> ParamV(pairs[i][1], pairs[i][2])]

\* Object.values(TOOLS).find(t => t.name === toolName): its index, or 0
FindTool(toolName) ==
  IF \E i \in 1..Len(TOOLS) : TOOLS[i].name = toolName
    THEN CHOOSE i \in 1..Len(TOOLS) :
           TOOLS[i].name = toolName /\ \A k \in 1..(i - 1) : TOOLS[k].name # toolName
  ELSE 0

\* the first missing required parameter only
MissingParamsFirst(tool, parameters) ==
  LET req == SelectSeq(tool.parameters, LAMBDA ps : ps.required)
      miss == SelectSeq(req, LAMBDA ps :
                ~\E i \in 1..Len(parameters) :
                    Get(parameters[i], "parameterName") = StrV(ps.name))
  IN IF miss = <<>> THEN <<>> ELSE <<miss[1].name>>

\* the names of the required parameters of the tool that are not among the
\* parsed parameters, in descriptor order
MissingParams(tool, parameters) ==
  LET req == SelectSeq(tool.parameters, LAMBDA ps : ps.required)
      miss == SelectSeq(req, LAMBDA ps :
                ~\E i \in 1..Len(parameters) :
                    Get(parameters[i], "parameterName") = StrV(ps.name))
  IN [i \in 1..Len(miss) |-> miss[i].name]

RECURSIVE JoinComma(_)
\* names.join(', ')
JoinComma(names) ==
  IF names = <<>> THEN <<>>
  ELSE IF Len(names) = 1 THEN names[1]
  ELSE names[1] \o <<Tok("other", ","), Sp>> \o JoinComma(Tail(names))

ToolResultPrefix == Tok("prompt", "Tool execution result:\n")

\* the result turn without the command turn
ToolTurnsResultOnly(command, resultStr) ==
  <<Turn("assistant", <<ToolResultPrefix>> \o resultStr)>>

\* the turns handleToolCommand appends once the tool has returned
ToolTurns(command, resultStr) ==
  <<Turn("user", command), Turn("assistant", <<ToolResultPrefix>> \o resultStr)>>

\* handleToolCommand(command, history) in the world w: the history after
\* it, what it reported, the executeFunction calls it made and the
\* execution of the tool
handleToolCommand(command, hist, w) ==
  LET parts == ToolCommandParts(command)
      toolName == parts[1]
      t == FindTool(toolName)
      parameters == ToolCommandParameters(command)
      missingParams == MissingParams(TOOLS[t], parameters)
      x == executeFunction(StrV(toolName), ArrV(parameters), w)
      resultStr == ResultStr(x.val)
      out(h, r, d, e) == [history |-> h, reports |-> r, dispatched |-> d, exec |-> e]
      none == Exec(Returned(Undefined), <<>>, "")
  IN IF toolName = <<>>
       THEN out(hist, <<Report("ToolNameRequired", "", <<>>)>>, <<>>, none)
     ELSE IF t = 0
       THEN out(hist, <<Report("UnknownTool", "", toolName)>>, <<>>, none)
     ELSE IF missingParams # <<>>
       THEN out(hist, <<Report("MissingParameters", "", JoinComma(missingParams))>>, <<>>, none)
     ELSE LET d == <<[functionName |-> StrV(toolName), parameters |-> ArrV(parameters)]>> IN
          IF x.c = "return"
            THEN out(hist \o ToolTurns(command, resultStr),
                     <<Report("Executing", "", toolName), Report("Result", "", resultStr)>>,
                     d, x)
          ELSE IF x.c = "ToolError"
            THEN out(hist, <<Report("Executing", "", toolName), Report("ToolError", x.code, <<>>)>>,
                     d, x)
          ELSE out(hist, <<Report("Executing", "", toolName), Report("ErrorExecutingTool", "", <<>>)>>,
                   d, x)

(***************************************************************************)
(* processPrompt: what follows the model's answer.                         *)
(***************************************************************************)
RetPending == [k |-> "pending", text |-> <<>>]
RetNull == [k |-> "null", text |-> <<>>]
\* the promise of processPrompt is rejected
RetThrown == [k |-> "thrown", text |-> <<>>]
RetString(text) == [k |-> "string", text |-> text]

NoExec == Exec(Returned(Undefined), <<>>, "")
Dispatch(functionName, parameters) == [functionName |-> functionName, parameters |-> parameters]
NotParsed == Returned(Undefined)
Outcome(ret, reports, parsed, dispatched, exec) ==
  [ret |-> ret, reports |-> reports, parsed |-> parsed, dispatched |-> dispatched,
   exec |-> exec]

\* the catch block of processPrompt: the report of a thrown completion
CatchReport(x) ==
  IF x.c = "ToolError" THEN Report("ToolError", x.code, <<>>)
  ELSE IF x.c = "SyntaxError" THEN Report("ParseError", "", <<>>)
  ELSE Report("Unexpected", x.code, <<>>)

\* a ToolError that is reported and then ignored: the round goes on to
\* return `text`
ExecuteParsedIgnoresError(parsed, text, w) ==
  LET functionName == Get(parsed.val, "functionName")
      parameters == Get(parsed.val, "parameters")
      x == executeFunction(functionName, parameters, w)
      d == <<Dispatch(functionName, parameters)>>
  IN IF x.c = "return"
       THEN Outcome(RetString(text), <<Report("Result", "", ResultStr(x.val))>>, parsed, d, x)
     ELSE Outcome(RetString(text), <<CatchReport(x)>>, parsed, d, x)

\* executeFunction on the parsed response, the display of its result, and
\* the return of `text`
ExecuteParsed(parsed, text, w) ==
  LET functionName == Get(parsed.val, "functionName")
      parameters == Get(parsed.val, "parameters")
      x == executeFunction(functionName, parameters, w)
      d == <<Dispatch(functionName, parameters)>>
  IN IF x.c = "return"
       THEN Outcome(RetString(text), <<Report("Result", "", ResultStr(x.val))>>, parsed, d, x)
     ELSE Outcome(RetNull, <<CatchReport(x)>>, parsed, d, x)

\* conversational mode, once the stream has ended with fullResponse
FinishConversational(fullResponse, w) ==
  LET parsedResponse == extractAndParseJSON(fullResponse) IN
  IF parsedResponse.c # "return"
    THEN Outcome(RetNull, <<CatchReport(parsedResponse)>>, parsedResponse, <<>>, NoExec)
  ELSE IF ~Truthy(parsedResponse.val)
    THEN Outcome(RetString(fullResponse), <<>>, parsedResponse, <<>>, NoExec)
  ELSE ExecuteParsed(parsedResponse, fullResponse, w)

\* direct mode, once generate has returned response
FinishDirect(response, w) ==
  LET parsedResponse == parseAIResponse(Trim(response)) IN
  IF parsedResponse.c # "return"
    THEN Outcome(RetNull, <<CatchReport(parsedResponse)>>, parsedResponse, <<>>, NoExec)
  ELSE ExecuteParsed(parsedResponse, response, w)

\* a model call made outside the try block: the failure rejects the promise
ModelCallEscapes == Outcome(RetThrown, <<>>, NotParsed, <<>>, NoExec)

\* the model call threw (the runtime is unreachable)
ModelCallFailed == Outcome(RetNull, <<Report("Unexpected", "", <<>>)>>, NotParsed, <<>>, NoExec)

\* the messages of a conversational request
ChatMessages(prompt, hist) ==
  (IF Len(hist) > 0 THEN hist ELSE <<Turn("system", CHAT_SYSTEM_PROMPT)>>)
  \o <<Turn("user", prompt)>>

(***************************************************************************)
(* processCommand: the classification of an input line.                    *)
(***************************************************************************)
\* toLowerCase of a run of characters
LowerRun(v) ==
  CASE v \in {"EXIT", "Exit"} -> "exit"
    [] v \in {"QUIT", "Quit"} -> "quit"
    [] v = "/HELP" -> "/help"
    [] v = "/Clear" -> "/clear"
    [] v = "/Model" -> "/model"
    [] v = "/TOOL" -> "/tool"
    [] v = "New" -> "new"
    [] v = "York" -> "york"
    [] v = "London" -> "london"
    [] v = "Weather" -> "weather"
    [] v = "WeatherFromLocation" -> "weatherfromlocation"
    [] v = "WeatherFromLatLon" -> "weatherfromlatlon"
    [] v = "LatLonToCity" -> "latlontocity"
    [] v = "WebSearch" -> "websearch"
    [] v = "Nope" -> "nope"
    [] OTHER -> v

ToLowerCase(s) == [i \in 1..Len(s) |-> Tok(s[i].t, LowerRun(s[i].v))]

\* which branch of askQuestion and processCommand takes the line
Classify(input) ==
  LET cmd == Trim(input)
      lowerCmd == ToLowerCase(cmd)
  IN IF cmd = <<>> THEN "blank"
     ELSE IF lowerCmd = <<W("exit")>> \/ lowerCmd = <<W("quit")>> THEN "exit"
     ELSE IF lowerCmd = <<Cmd("/help")>> THEN "help"
     ELSE IF lowerCmd = <<Cmd("/clear")>> THEN "clear"
     ELSE IF cmd[1] = Cmd("/tool") THEN "tool"
     ELSE IF lowerCmd[1] = Cmd("/model") THEN "model"
     ELSE "freeform"

RECURSIVE AfterFirstSpace(_)
\* cmd.split(' ').slice(1).join(' '): what follows the first space character
\* (a "ws" run of v = " " is one space, of v = "  " two, of "\t" none)
AfterFirstSpace(s) ==
  IF s = <<>> THEN <<>>
  ELSE IF Head(s) = Sp THEN Tail(s)
  ELSE IF Head(s) = Tok("ws", "  ") THEN <<Sp>> \o Tail(s)
  ELSE AfterFirstSpace(Tail(s))

\* cmd.split(' ').length > 1
HasSpace(s) == \E i \in 1..Len(s) : s[i] \in {Sp, Tok("ws", "  ")}

(***************************************************************************)
(* Inputs.                                                                 *)
(***************************************************************************)
\* the history may hold at most MaxTurns turns when a line that can append
\* to it is read
MaxTurns == 5

CallV(f, ps) == ObjV(<<Member("functionName", f), Member("parameters", ps)>>)
Name(n) == StrV(<<W(n)>>)

\* call descriptors of the wire shape
ValidCalls ==
  {CallV(Name("WeatherFromLocation"), ArrV(<<ParamV(<<W("location")>>, <<W("London")>>)>>)),
   CallV(Name("WeatherFromLocation"), ArrV(<<ParamV(<<W("location")>>, StrText("New York"))>>)),
   CallV(Name("WeatherFromLatLon"),
         ArrV(<<ParamV(<<W("latitude")>>, <<W("41")>>), ParamV(<<W("longitude")>>, <<W("87")>>)>>)),
   CallV(Name("LatLonToCity"),
         ArrV(<<ParamV(<<W("longitude")>>, <<W("87")>>), ParamV(<<W("latitude")>>, <<W("41")>>)>>)),
   CallV(Name("WebSearch"),
         ArrV(<<ParamV(<<W("query")>>, <<W("cats")>>), ParamV(<<W("query")>>, <<W("London")>>)>>)),
   CallV(Name("WeatherFromLocation"), ArrV(<<>>)),
   CallV(Name("WebSearch"), ArrV(<<ParamV(<<W("location")>>, <<W("London")>>)>>)),
   CallV(Name("UnknownTool"), ArrV(<<>>)),
   CallV(Name("UnknownTool"), ArrV(<<ParamV(<<W("query")>>, <<W("cats")>>)>>)),
   CallV(Name("toString"), ArrV(<<>>)),
   CallV(Name("constructor"), ArrV(<<ParamV(<<W("query")>>, <<W("cats")>>)>>)),
   CallV(Name("__proto__"), ArrV(<<>>))}

\* JSON values that are no call descriptor of the wire shape
InvalidCalls ==
  {Null, ArrV(<<>>), NumV("5"), Name("London"), ObjV(<<>>),
   ObjV(<<Member("parameters", ArrV(<<>>))>>),
   ObjV(<<Member("functionName", Name("WebSearch"))>>),
   CallV(StrV(<<>>), ArrV(<<>>)),
   CallV(Null, ArrV(<<>>)),
   CallV(NumV("0"), ArrV(<<>>)),
   CallV(NumV("5"), ArrV(<<>>)),
   CallV(ArrV(<<Name("WebSearch")>>), ArrV(<<ParamV(<<W("query")>>, <<W("cats")>>)>>)),
   CallV(Name("WebSearch"), ObjV(<<>>)),
   CallV(Name("WebSearch"), Name("cats")),
   CallV(Name("WebSearch"), ArrV(<<NumV("5")>>)),
   CallV(Name("WebSearch"), ArrV(<<Null>>)),
   CallV(Name("WebSearch"), ArrV(<<ObjV(<<Member("parameterName", Name("query"))>>)>>)),
   CallV(Name("WebSearch"),
         ArrV(<<ObjV(<<Member("parameterName", Name("query")),
                       Member("parameterValue", NumV("5"))>>)>>)),
   CallV(Name("WeatherFromLocation"),
         ArrV(<<ObjV(<<Member("parameterName", NumV("5")),
                       Member("parameterValue", Name("London"))>>)>>))}

\* texts that are no JSON
NotJSON ==
  {<<>>, <<Pr("Hello")>>, <<P("{")>>, <<P("{"), Str("functionName"), Str("WebSearch"), P("}")>>,
   <<P("{"), Str("functionName"), P(":"), Str("WebSearch"), P(","), P("}")>>,
   <<P("{"), P("}"), P("{"), P("}")>>,
   <<P("{"), P("}"), Pr("Hello")>>}

Payloads == {Stringify(v) : v \in ValidCalls \cup InvalidCalls} \cup NotJSON

Proses == {<<>>, <<Pr("Sure")>>, <<Pr("Sure"), P("{"), P("}"), Sp>>}
Wrap(pre, payload, post) == pre \o <<START>> \o payload \o <<END>> \o post

\* texts with one delimiter pair, and texts with none
OnePair == {Wrap(pre, p, post) : pre \in Proses, p \in Payloads, post \in Proses}
Sample == Stringify(CallV(Name("WebSearch"), ArrV(<<ParamV(<<W("query")>>, <<W("cats")>>)>>)))
NoPair ==
  {<<>>, <<Pr("Hello")>>, Sample, <<START>> \o Sample, Sample \o <<END>>,
   <<END>> \o Sample \o <<START>>, <<Pr("Sure"), START, START>>, <<END, Pr("Sure")>>}
\* texts with more delimiters than one pair
ManyPairs ==
  {Wrap(<<>>, Sample, <<>>) \o Wrap(<<Pr("Sure")>>, Stringify(CallV(Name("UnknownTool"), ArrV(<<>>))), <<>>),
   Wrap(<<END>>, Sample, <<END>>), Wrap(<<START>>, Sample, <<>>),
   Wrap(<<>>, <<Pr("Hello")>>, <<>>) \o Wrap(<<>>, Sample, <<>>)}

\* what the model may stream in answer to a conversational request
ChatTexts == OnePair \cup NoPair \cup ManyPairs

\* what the model may return to a direct request
DirectTexts == Payloads \cup {<<Sp>> \o p \o <<NL>> : p \in Payloads} \cup {<<Pr("Sure")>> \o Sample}

\* the chunks a text may arrive in: whole, cut in two anywhere (between two
\* tokens, or inside a delimiter or a JSON string), or followed by a chunk
\* without content
Chunkings(text) ==
  {<<text>>, <<text, <<>> >>}
  \cup {<<SubSeq(text, 1, i), SubSeq(text, i + 1, Len(text))>> : i \in 1..(Len(text) - 1)}
  \cup {<<SubSeq(text, 1, i - 1) \o <<Cut1(text[i])>>,
          <<Cut2(text[i])>> \o SubSeq(text, i + 1, Len(text))>> :
          i \in {k \in 1..Len(text) : text[k].t \in {"start", "end", "str"}}}

\* the lines of a chat session
ToolLineNewYork ==
  <<Cmd("/tool"), Sp, W("WeatherFromLocation"), Sp, W("location"), Eq, Quote, W("New"), Sp,
    W("York"), Quote>>
SessionLines ==
  {<<>>, <<Sp>>, <<W("exit")>>, <<Sp, W("QUIT")>>, <<Cmd("/help")>>, <<Cmd("/clear")>>,
   <<Cmd("/model")>>, <<Cmd("/Model"), Sp, W("mistral")>>,
   ToolLineNewYork, <<Sp>> \o ToolLineNewYork \o <<Sp>>,
   <<Cmd("/tool"), Sp, W("WebSearch"), Sp, W("query"), Eq, W("cats")>>,
   <<Cmd("/tool"), Sp, W("WeatherFromLatLon")>>, <<Cmd("/tool"), Sp, W("Nope")>>,
   <<W("hello")>>, <<Cmd("/TOOL"), Sp, W("WebSearch")>>}

\* the streams of a chat session
SessionStreams ==
  {<< <<Pr("Hi")>>, <<>>, <<Pr("there")>> >>,
   << <<Pr("Sure")>>, <<START>> \o Sample \o <<END>> >>,
   << >>,
   << <<START>>, Stringify(CallV(Name("UnknownTool"), ArrV(<<>>))) \o <<END>> >>,
   << <<Pr("Sure"), START, P("{"), P("}"), END>> >>,
   << <<START, Pr("Hello"), END>> >>}

\* /tool commands as they are written: a tool name and key=value
\* arguments, the value between double quotes or not, one run of
\* whitespace between the parts
MaxArgs == 2
Arg(key, value, quoted) == [key |-> <<W(key)>>, value |-> value, quoted |-> quoted]
Args ==
  {Arg("location", <<W("New"), Sp, W("York")>>, TRUE),
   Arg("location", <<W("a"), Tok("ws", "  "), W("b")>>, TRUE),
   Arg("Location", <<W("London")>>, FALSE),
   Arg("latitude", <<W("41")>>, FALSE),
   Arg("longitude", <<Tok("other", "-"), W("87")>>, FALSE),
   Arg("longitude", <<Sp, W("87"), Eq>>, TRUE),
   Arg("query", <<>>, TRUE),
   Arg("query", <<W("a"), Quote, W("b")>>, FALSE)}
ArgLists == UNION {[1..n -> Args] : n \in 0..MaxArgs}
ToolNames == {"WeatherFromLocation", "WeatherFromLatLon", "WebSearch"}
Separators == {Sp, Tok("ws", "\t")}
WrittenCommands ==
  {[tool |-> <<W(t)>>, args |-> a, sep |-> sp] : t \in ToolNames, a \in ArgLists, sp \in Separators}

RenderArg(a) ==
  a.key \o <<Eq>> \o (IF a.quoted THEN <<Quote>> \o a.value \o <<Quote>> ELSE a.value)
RenderCommand(c) ==
  <<Cmd("/tool"), c.sep>> \o c.tool
  \o Flatten([i \in 1..Len(c.args) |-> <<c.sep>> \o RenderArg(c.args[i])])

\* the first line of a session
FirstLines ==
  SessionLines \cup {RenderCommand(c) : c \in WrittenCommands}
  \cup {<<Cmd("/tool")>>, <<Cmd("/tool"), W("WebSearch"), Sp, W("query"), Eq, W("cats")>>,
        <<Cmd("/tool"), Sp, W("WebSearch"), Sp, W("query"), Eq>>,
        <<Cmd("/tool"), Sp, W("WebSearch"), Sp, W("query"), Eq, Quote, W("a"), Sp, W("b")>>,
        <<Cmd("/tool"), Sp, W("WebSearch"), Sp, Tok("other", "--"), W("query"), Eq, W("cats")>>}

(***************************************************************************)
(* State.                                                                  *)
(***************************************************************************)
VARIABLES
  entry,          \* what runs: "chat" (startChatSession), "line" (startChatSession
                  \* up to its first line), "prompt" (one call of processPrompt),
                  \* "registry" (the tools module being loaded), "cli" (the
                  \* startChatSession of cli/index.ts) or "mock" (one call of
                  \* runMockPrompt)
  pc,             \* "awaiting": rl.question is pending; "streaming": processPrompt
                  \* is consuming the stream; "closed": the interface is closed;
                  \* "handled": the first line has been handled; "call" /
                  \* "returned" / "rejected": before and after the call of
                  \* processPrompt; "exited" / "fatal": the process has ended
                  \* with exit code 0 / 1; "loading" / "loaded": the tools
                  \* module is registering its tools / has exported TOOLS;
                  \* "query" / "tool" / "round": the Query question is pending /
                  \* its tool round / a chat round is running
  history,        \* the history array
  model,          \* CONFIG.AI.MODEL
  input,          \* the line or prompt being handled
  before,         \* the history when the input was taken
  request,        \* the request sent to the model for this input
  stream,         \* the chunks of the stream not yet consumed
  fullResponse,   \* handleStreamingResponse: the text accumulated
  shown,          \* handleStreamingResponse: the text written to stdout
  modelCalls,     \* the model calls (generate, chat) made for this input
  parsedResponse, \* the completion of the extraction for this input
  dispatched,     \* the calls of executeFunction made for this input
  exec,           \* the execution of the tool called for this input
  reports,        \* what was reported on the console for this input
  ret,            \* what processPrompt returned for this input
  toolRegistry,   \* the entries of toolRegistry, in the order of its keys
  registerToolCalls \* the calls of registerTool made so far, in order

vars ==
  <<toolRegistry, registerToolCalls, entry, pc, history, model, input, before, request, stream, fullResponse, shown,
    modelCalls, parsedResponse, dispatched, exec, reports, ret>>

DefaultModel == <<W("llama3"), Tok("other", "."), W("2")>>
NoRequest == [api |-> "none", model |-> <<>>, messages |-> <<>>, prompt |-> <<>>]
SystemTurn == Turn("system", CHAT_SYSTEM_PROMPT)

\* nothing has been done yet for the input
Fresh ==
  /\ request = NoRequest /\ stream = <<>> /\ fullResponse = <<>> /\ shown = <<>>
  /\ modelCalls = 0 /\ parsedResponse = NotParsed /\ dispatched = <<>> /\ exec = NoExec
  /\ reports = <<>> /\ ret = RetPending

\* the lines of the entry
Lines == IF entry = "chat" THEN SessionLines ELSE FirstLines

\* the worlds of the entry
Worlds == IF entry = "prompt" THEN AllApiWorlds ELSE ApiWorlds

\* where the session is once a line has been handled
Asking == IF entry = "chat" THEN "awaiting" ELSE "handled"

\* a line that is handled without processPrompt is taken
Take(line) ==
  /\ input' = line
  /\ before' = history
  /\ request' = NoRequest /\ stream' = <<>> /\ fullResponse' = <<>> /\ shown' = <<>>
  /\ modelCalls' = 0 /\ parsedResponse' = NotParsed /\ ret' = RetPending

\* the tools module has been loaded
Loaded ==
  /\ registerToolCalls = ModuleRegistrations
  /\ toolRegistry = RegisterAll(ModuleRegistrations, Len(ModuleRegistrations))

\* startChatSession up to the first askQuestion
Start(e) ==
  /\ Loaded
  /\ entry = e /\ pc = "awaiting"
  /\ history = <<SystemTurn>> /\ before = <<SystemTurn>>
  /\ model = DefaultModel /\ input = <<>>
  /\ Fresh

Init == Start("chat")

(***************************************************************************)
(* The chat session: the callback of rl.question, one action per branch.   *)
(***************************************************************************)
\* a blank line that is recorded in the history like a message
AskBlankRecorded ==
  /\ pc = "awaiting" /\ Len(history) < MaxTurns
  /\ \E line \in Lines :
       /\ Classify(line) = "blank"
       /\ Take(line)
       /\ history' = Append(history, Turn("user", line))
  /\ pc' = Asking
  /\ dispatched' = <<>> /\ exec' = NoExec /\ reports' = <<>>
  /\ UNCHANGED <<toolRegistry, registerToolCalls, entry, model>>

\* if (!input.trim()) { askQuestion(); return; }
AskBlank ==
  /\ pc = "awaiting"
  /\ \E line \in Lines :
       /\ Classify(line) = "blank"
       /\ Take(line)
  /\ pc' = Asking
  /\ dispatched' = <<>> /\ exec' = NoExec /\ reports' = <<>>
  /\ UNCHANGED <<toolRegistry, registerToolCalls, entry, history, model>>

\* what rl.question does on an interface that is closed: the readline of
\* the runtime either throws ERR_USE_AFTER_CLOSE, which rejects the promise
\* of the callback and is reported as an unhandled rejection, or writes the
\* prompt again and never calls the callback
QuestionAfterClose ==
  {Report("UseAfterClose", "ERR_USE_AFTER_CLOSE", <<>>), Report("Prompt", "", <<W("You")>>)}

\* exit, quit: rl.close(), and processCommand returns true, so that the
\* callback calls askQuestion() once more
AskExit ==
  /\ pc = "awaiting"
  /\ \E line \in Lines :
       /\ Classify(line) = "exit"
       /\ Take(line)
  /\ pc' = "closed"
  /\ dispatched' = <<>> /\ exec' = NoExec
  /\ \E again \in QuestionAfterClose : reports' = <<Report("Goodbye", "", <<>>), again>>
  /\ UNCHANGED <<toolRegistry, registerToolCalls, entry, history, model>>

\* /help
AskHelp ==
  /\ pc = "awaiting"
  /\ \E line \in Lines :
       /\ Classify(line) = "help"
       /\ Take(line)
  /\ pc' = Asking
  /\ dispatched' = <<>> /\ exec' = NoExec /\ reports' = <<Report("Help", "", <<>>)>>
  /\ UNCHANGED <<toolRegistry, registerToolCalls, entry, history, model>>

\* /clear that empties the history and pushes nothing
AskClearEmptiesHistory ==
  /\ pc = "awaiting"
  /\ \E line \in Lines :
       /\ Classify(line) = "clear"
       /\ Take(line)
  /\ pc' = Asking
  /\ history' = <<>>
  /\ dispatched' = <<>> /\ exec' = NoExec /\ reports' = <<Report("Cleared", "", <<>>)>>
  /\ UNCHANGED <<toolRegistry, registerToolCalls, entry, model>>

\* /clear that pushes the system prompt without emptying the history
AskClearKeepsTurns ==
  /\ pc = "awaiting"
  /\ \E line \in Lines :
       /\ Classify(line) = "clear"
       /\ Take(line)
  /\ pc' = Asking
  /\ history' = <<SystemTurn>> \o SubSeq(history, 1, 1)
  /\ dispatched' = <<>> /\ exec' = NoExec /\ reports' = <<Report("Cleared", "", <<>>)>>
  /\ UNCHANGED <<toolRegistry, registerToolCalls, entry, model>>

\* /clear
AskClear ==
  /\ pc = "awaiting"
  /\ \E line \in Lines :
       /\ Classify(line) = "clear"
       /\ Take(line)
  /\ pc' = Asking
  /\ history' = <<SystemTurn>>
  /\ dispatched' = <<>> /\ exec' = NoExec /\ reports' = <<Report("Cleared", "", <<>>)>>
  /\ UNCHANGED <<toolRegistry, registerToolCalls, entry, model>>

\* /model [name]
AskModel ==
  /\ pc = "awaiting"
  /\ \E line \in Lines :
       /\ Classify(line) = "model"
       /\ Take(line)
       /\ LET cmd == Trim(line) IN
          IF HasSpace(cmd)
            THEN /\ model' = AfterFirstSpace(cmd)
                 /\ reports' = <<Report("ModelChanged", "", AfterFirstSpace(cmd))>>
          ELSE /\ model' = model
               /\ reports' = <<Report("CurrentModel", "", model)>>
  /\ pc' = Asking
  /\ dispatched' = <<>> /\ exec' = NoExec
  /\ UNCHANGED <<toolRegistry, registerToolCalls, entry, history>>

\* a /tool command whose line stays in the history when the tool threw
AskToolKeepsCommand ==
  /\ pc = "awaiting"
  /\ Len(history) + 2 <= MaxTurns
  /\ \E line \in Lines, w \in Worlds :
       /\ Classify(line) = "tool"
       /\ Take(line)
       /\ LET o == handleToolCommand(Trim(line), history, w) IN
          /\ history' = IF o.exec.c = "return" THEN o.history
                         ELSE Append(history, Turn("user", Trim(line)))
          /\ dispatched' = o.dispatched /\ exec' = o.exec /\ reports' = o.reports
  /\ pc' = Asking
  /\ UNCHANGED <<toolRegistry, registerToolCalls, entry, model>>

\* /tool ...: await handleToolCommand(cmd, history)
AskTool ==
  /\ pc = "awaiting"
  /\ Len(history) + 2 <= MaxTurns
  /\ \E line \in Lines, w \in Worlds :
       /\ Classify(line) = "tool"
       /\ Take(line)
       /\ LET o == handleToolCommand(Trim(line), history, w) IN
          /\ history' = o.history
          /\ dispatched' = o.dispatched /\ exec' = o.exec /\ reports' = o.reports
  /\ pc' = Asking
  /\ UNCHANGED <<toolRegistry, registerToolCalls, entry, model>>

\* a conversational request that names the configured default model
ChatRequestDefaultModel(prompt, hist) ==
  [api |-> "chat", model |-> DefaultModel, prompt |-> prompt,
   messages |-> ChatMessages(prompt, hist)]

\* the request of processPrompt(prompt, true, hist)
ChatRequest(prompt, hist) ==
  [api |-> "chat", model |-> model, prompt |-> prompt, messages |-> ChatMessages(prompt, hist)]

\* a freeform line taken without awaiting the round before it
AskFreeformNotAwaited ==
  /\ pc \in {"awaiting", "streaming"}
  /\ Len(history) + 2 <= MaxTurns
  /\ \E line \in Lines, chunks \in SessionStreams :
       /\ Classify(line) = "freeform"
       /\ input' = line /\ before' = history
       /\ history' = Append(history, Turn("user", line))
       /\ request' = [api |-> "chat", model |-> model, prompt |-> line,
                      messages |-> ChatMessages(line, Append(history, Turn("user", line)))]
       /\ stream' = chunks
  /\ pc' = "streaming"
  /\ modelCalls' = 1
  /\ fullResponse' = <<>> /\ shown' = <<>> /\ ret' = RetPending
  /\ parsedResponse' = NotParsed /\ dispatched' = <<>> /\ exec' = NoExec /\ reports' = <<>>
  /\ UNCHANGED <<toolRegistry, registerToolCalls, entry, model>>

\* a freeform line: history.push(user turn), processPrompt(input, true,
\* history) up to the answer of ollama.chat, which is a stream
AskFreeform ==
  /\ pc = "awaiting"
  /\ Len(history) + 2 <= MaxTurns
  /\ \E line \in Lines, chunks \in SessionStreams :
       /\ Classify(line) = "freeform"
       /\ input' = line /\ before' = history
       /\ history' = Append(history, Turn("user", line))
       /\ request' = ChatRequest(line, Append(history, Turn("user", line)))
       /\ stream' = chunks
  /\ pc' = "streaming"
  /\ modelCalls' = 1
  /\ fullResponse' = <<>> /\ shown' = <<>> /\ ret' = RetPending
  /\ parsedResponse' = NotParsed /\ dispatched' = <<>> /\ exec' = NoExec /\ reports' = <<>>
  /\ UNCHANGED <<toolRegistry, registerToolCalls, entry, model>>

\* a freeform line when ollama.chat throws: processPrompt returns null
AskFreeformUnreachable ==
  /\ pc = "awaiting"
  /\ Len(history) + 2 <= MaxTurns
  /\ \E line \in Lines :
       /\ Classify(line) = "freeform"
       /\ input' = line /\ before' = history
       /\ history' = Append(history, Turn("user", line))
       /\ request' = ChatRequest(line, Append(history, Turn("user", line)))
  /\ pc' = Asking
  /\ modelCalls' = 1
  /\ ret' = ModelCallFailed.ret
  /\ reports' = IF ModelCallFailed.ret = RetThrown
                  THEN Append(ModelCallFailed.reports, Report("ErrorProcessingMessage", "", <<>>))
                ELSE ModelCallFailed.reports
  /\ stream' = <<>> /\ fullResponse' = <<>> /\ shown' = <<>>
  /\ parsedResponse' = NotParsed /\ dispatched' = <<>> /\ exec' = NoExec
  /\ UNCHANGED <<toolRegistry, registerToolCalls, entry, model>>

(***************************************************************************)
(* processPrompt in conversational mode: the stream.                       *)
(***************************************************************************)
\* processPrompt returns o.ret to its caller; askQuestion appends a truthy
\* return value to the history, reports a rejection, and asks again
\* a session that also records the result of the tool of the round
ReturnRecordsResult(o) ==
  /\ ret' = o.ret /\ parsedResponse' = o.parsed
  /\ dispatched' = o.dispatched /\ exec' = o.exec
  /\ reports' = IF entry # "prompt" /\ o.ret = RetThrown
                  THEN Append(o.reports, Report("ErrorProcessingMessage", "", <<>>))
                ELSE o.reports
  /\ IF entry = "prompt"
       THEN /\ pc' = IF o.ret = RetThrown THEN "rejected" ELSE "returned"
            /\ history' = history
     ELSE /\ pc' = Asking
          /\ history' = IF o.ret.k = "string" /\ o.ret.text # <<>>
                          THEN IF o.dispatched # <<>>
                                 THEN history \o <<Turn("assistant", o.ret.text \o ResultStr(o.exec.val))>>
                               ELSE Append(history, Turn("assistant", o.ret.text))
                        ELSE history

Return(o) ==
  /\ ret' = o.ret /\ parsedResponse' = o.parsed
  /\ dispatched' = o.dispatched /\ exec' = o.exec
  /\ reports' = IF entry # "prompt" /\ o.ret = RetThrown
                  THEN Append(o.reports, Report("ErrorProcessingMessage", "", <<>>))
                ELSE o.reports
  /\ IF entry = "prompt"
       THEN /\ pc' = IF o.ret = RetThrown THEN "rejected" ELSE "returned"
            /\ history' = history
     ELSE /\ pc' = Asking
          /\ history' = IF o.ret.k = "string" /\ o.ret.text # <<>>
                          THEN Append(history, Turn("assistant", o.ret.text))
                        ELSE history

\* a loop that displays each chunk and accumulates none
StreamChunkNotAccumulated ==
  /\ pc = "streaming" /\ stream # <<>>
  /\ stream' = Tail(stream)
  /\ shown' = StrConcat(shown, Head(stream))
  /\ UNCHANGED <<toolRegistry, registerToolCalls, entry, pc, history, model, input, before,
                 request, fullResponse, modelCalls, parsedResponse, dispatched, exec, reports,
                 ret>>

\* a loop that never takes the next chunk
StreamChunkStalls ==
  /\ pc = "streaming" /\ stream # <<>>
  /\ UNCHANGED vars

\* a loop that accumulates the chunks one per line
StreamChunkPerLine ==
  /\ pc = "streaming" /\ stream # <<>>
  /\ stream' = Tail(stream)
  /\ IF Head(stream) # <<>>
       THEN /\ shown' = StrConcat(shown, Head(stream))
            /\ fullResponse' = IF fullResponse = <<>> THEN Head(stream)
                               ELSE fullResponse \o <<NL>> \o Head(stream)
     ELSE UNCHANGED <<shown, fullResponse>>
  /\ UNCHANGED <<toolRegistry, registerToolCalls, entry, pc, history, model, input, before, request, modelCalls,
                 parsedResponse, dispatched, exec, reports, ret>>

\* one turn of the loop of handleStreamingResponse
StreamChunk ==
  /\ pc = "streaming" /\ stream # <<>>
  /\ stream' = Tail(stream)
  /\ IF Head(stream) # <<>>
       THEN /\ shown' = StrConcat(shown, Head(stream))
            /\ fullResponse' = StrConcat(fullResponse, Head(stream))
     ELSE UNCHANGED <<shown, fullResponse>>
  /\ UNCHANGED <<toolRegistry, registerToolCalls, entry, pc, history, model, input, before, request, modelCalls,
                 parsedResponse, dispatched, exec, reports, ret>>

\* the stream throws before it ends
StreamThrows ==
  /\ pc = "streaming" /\ stream # <<>>
  /\ Return(ModelCallFailed)
  /\ UNCHANGED <<toolRegistry, registerToolCalls, entry, model, input, before, request, stream, fullResponse, shown,
                 modelCalls>>

\* the stream has ended
StreamEnd ==
  /\ pc = "streaming" /\ stream = <<>>
  /\ \E w \in Worlds : Return(FinishConversational(fullResponse, w))
  /\ UNCHANGED <<toolRegistry, registerToolCalls, entry, model, input, before, request, stream, fullResponse, shown,
                 modelCalls>>

Session ==
  \/ AskBlank \/ AskExit \/ AskHelp \/ AskClear \/ AskModel \/ AskTool
  \/ AskFreeform \/ AskFreeformUnreachable

Next == Session \/ StreamChunk \/ StreamThrows \/ StreamEnd

\* a chat session
Spec == Init /\ [][Next]_vars

\* the stream of the round has ended: what enables StreamEnd
StreamEnded == pc = "streaming" /\ stream = <<>>

\* a chat session whose streams are consumed: the for await loop of
\* handleStreamingResponse takes every chunk, and the continuation of
\* processPrompt runs once the stream has ended (weak fairness of
\* StreamEnd, written with its enabling condition)
SpecLive ==
  /\ Spec
  /\ WF_vars(StreamChunk)
  /\ ([]<>(~StreamEnded) \/ []<><<StreamEnd>>_vars)

\* a chat session up to its first line, the line drawn from FirstLines
InitLine == Start("line")
SpecLine == InitLine /\ [][Next]_vars

(***************************************************************************)
(* The tools module being loaded: calls of registerTool, then the export   *)
(* of TOOLS and toolsString.                                               *)
(***************************************************************************)
MaxRegistrations == 3

\* the definitions registered: those of the module and, for two of the
\* names, a second definition of that name
Definitions ==
  {ModuleRegistrations[i].definition : i \in 1..Len(ModuleRegistrations)}
  \cup {Tool("WebSearch", <<ParameterSpec("q", TRUE)>>), Tool("WeatherFromLocation", <<>>)}
Implementations == {"WeatherFromLocationImpl", "WebSearchImpl"}

InitRegistry ==
  /\ entry = "registry" /\ pc = "loading"
  /\ toolRegistry = <<>> /\ registerToolCalls = <<>>
  /\ history = <<>> /\ before = <<>> /\ model = DefaultModel /\ input = <<>>
  /\ Fresh

\* registerTool(definition, implementation)
RegisterTool ==
  /\ pc = "loading" /\ Len(registerToolCalls) < MaxRegistrations
  /\ \E definition \in Definitions, implementation \in Implementations :
       /\ toolRegistry' = registerTool(toolRegistry, definition, implementation)
       /\ registerToolCalls' = Append(registerToolCalls, Registration(definition, implementation))
  /\ UNCHANGED <<entry, pc, history, model, input, before, request, stream, fullResponse,
                 shown, modelCalls, parsedResponse, dispatched, exec, reports, ret>>

\* export const TOOLS = ...; export const toolsString = ...
ExportTools ==
  /\ pc = "loading"
  /\ pc' = "loaded"
  /\ UNCHANGED <<toolRegistry, registerToolCalls, entry, history, model, input, before,
                 request, stream, fullResponse, shown, modelCalls, parsedResponse, dispatched,
                 exec, reports, ret>>

NextRegistry == RegisterTool \/ ExportTools
SpecRegistry == InitRegistry /\ [][NextRegistry]_vars

(***************************************************************************)
(* One call of processPrompt(prompt, streamOutput, history).               *)
(***************************************************************************)
Prompts == {<<W("hello")>>}
PromptHistories ==
  {<<>>, <<SystemTurn, Turn("user", <<W("hi")>>), Turn("assistant", <<Pr("Hi")>>)>>}

InitPrompt ==
  /\ Loaded
  /\ entry = "prompt" /\ pc = "call"
  /\ history \in PromptHistories /\ before = history
  /\ model = DefaultModel /\ input \in Prompts
  /\ Fresh

\* streamOutput = false: ollama.generate answers, and the rest of the call
CallDirect ==
  /\ pc = "call"
  /\ request' = [api |-> "generate", model |-> model, prompt |-> input, messages |-> <<>>]
  /\ modelCalls' = 1
  /\ \E response \in DirectTexts, w \in Worlds :
       /\ fullResponse' = response
       /\ Return(FinishDirect(response, w))
  /\ UNCHANGED <<toolRegistry, registerToolCalls, entry, model, input, before, stream, shown>>

\* streamOutput = false: ollama.generate throws
CallDirectUnreachable ==
  /\ pc = "call"
  /\ request' = [api |-> "generate", model |-> model, prompt |-> input, messages |-> <<>>]
  /\ modelCalls' = 1
  /\ Return(ModelCallFailed)
  /\ UNCHANGED <<toolRegistry, registerToolCalls, entry, model, input, before, stream, fullResponse, shown>>

\* a conversational call that pushes the user turn onto the array it was
\* given
CallConversationalPushes ==
  /\ pc = "call"
  /\ request' = ChatRequest(input, history)
  /\ history' = Append(history, Turn("user", input))
  /\ modelCalls' = 1
  /\ \E text \in ChatTexts : \E chunks \in Chunkings(text) : stream' = chunks
  /\ pc' = "streaming"
  /\ UNCHANGED <<toolRegistry, registerToolCalls, entry, model, input, before, fullResponse, shown, parsedResponse,
                 dispatched, exec, reports, ret>>

\* streamOutput = true: ollama.chat answers with a stream
CallConversational ==
  /\ pc = "call"
  /\ request' = ChatRequest(input, history)
  /\ modelCalls' = 1
  /\ \E text \in ChatTexts : \E chunks \in Chunkings(text) : stream' = chunks
  /\ pc' = "streaming"
  /\ UNCHANGED <<toolRegistry, registerToolCalls, entry, history, model, input, before, fullResponse, shown, parsedResponse,
                 dispatched, exec, reports, ret>>

\* streamOutput = true: ollama.chat throws
CallConversationalUnreachable ==
  /\ pc = "call"
  /\ request' = ChatRequest(input, history)
  /\ modelCalls' = 1
  /\ Return(ModelCallFailed)
  /\ UNCHANGED <<toolRegistry, registerToolCalls, entry, model, input, before, stream, fullResponse, shown>>

\* runCli after await processPrompt(options.prompt), and the main module:
\* runCli returns and the process ends with exit code 0 ("exited"), or its
\* promise is rejected and the handler calls process.exit(1) ("fatal")
RunCliEnds ==
  /\ pc \in {"returned", "rejected"} /\ request.api = "generate"
  /\ pc' = IF pc = "rejected" THEN "fatal" ELSE "exited"
  /\ UNCHANGED <<toolRegistry, registerToolCalls, entry, history, model, input, before, request, stream, fullResponse, shown,
                 modelCalls, parsedResponse, dispatched, exec, reports, ret>>

NextPrompt ==
  \/ CallDirect \/ CallDirectUnreachable
  \/ CallConversational \/ CallConversationalUnreachable
  \/ StreamChunk \/ StreamThrows \/ StreamEnd
  \/ RunCliEnds

SpecPrompt == InitPrompt /\ [][NextPrompt]_vars

\* a chat session, or one call of processPrompt
InitAll == Init \/ InitPrompt
NextAll == Next \/ NextPrompt
SpecAll == InitAll /\ [][NextAll]_vars

(***************************************************************************)
(* The session of cli/index.ts, where /tool asks for a query.  pc is       *)
(* "awaiting" while the question You: is pending, "query" while the        *)
(* question Query: is pending, "round" / "tool" while processPrompt runs   *)
(* for a message / for the query, "closed" once the interface is closed.   *)
(* reports holds what was done for the last line, the calls of rl.question *)
(* included.  rl.question called while a question is pending writes the    *)
(* prompt of the pending question again and drops its callback.            *)
(***************************************************************************)
QuestionAsked(q) == Report("Question", "asked", <<W(q)>>)
QuestionIgnored(q) == Report("Question", "ignored", <<W(q)>>)

CliLines ==
  {<<>>, <<W("exit")>>, <<Cmd("/help")>>, <<Cmd("/clear")>>, <<Cmd("/model")>>,
   <<Cmd("/Model"), Sp, W("mistral")>>, <<Cmd("/tool")>>, <<Sp, Cmd("/TOOL")>>,
   <<Cmd("/tool"), Sp, W("WebSearch")>>, <<W("hello")>>, <<W("hi")>>}

\* the answers to Query:
CliQueries == {<<>>, <<W("hello")>>, <<W("exit")>>}

\* what ollama.generate returns for the query
CliResponses == {Sample, <<Pr("Hello")>>}

\* which branch of askQuestion and processCommand takes the line
CliClassify(line) ==
  LET cmd == ToLowerCase(Trim(line)) IN
  IF cmd = <<>> THEN "blank"
  ELSE IF cmd = <<W("exit")>> \/ cmd = <<W("quit")>> THEN "exit"
  ELSE IF cmd = <<Cmd("/help")>> THEN "help"
  ELSE IF cmd = <<Cmd("/clear")>> THEN "clear"
  ELSE IF cmd[1] = Cmd("/model") THEN "model"
  ELSE IF cmd = <<Cmd("/tool")>> THEN "tool"
  ELSE "freeform"

InitCli ==
  /\ Loaded
  /\ entry = "cli" /\ pc = "awaiting"
  /\ history = <<>> /\ before = <<>>
  /\ model = DefaultModel /\ input = <<>>
  /\ request = NoRequest /\ stream = <<>> /\ fullResponse = <<>> /\ shown = <<>>
  /\ modelCalls = 0 /\ parsedResponse = NotParsed /\ dispatched = <<>> /\ exec = NoExec
  /\ reports = <<QuestionAsked("You")>> /\ ret = RetPending

\* a line answers You: and is handled by the branch kind
CliTake(kind) ==
  /\ pc = "awaiting"
  /\ \E line \in CliLines : CliClassify(line) = kind /\ Take(line)
  /\ dispatched' = <<>> /\ exec' = NoExec

CliBlank ==
  /\ CliTake("blank")
  /\ reports' = <<QuestionAsked("You")>>
  /\ UNCHANGED <<toolRegistry, registerToolCalls, entry, pc, history, model>>

CliExit ==
  /\ CliTake("exit")
  /\ pc' = "closed"
  /\ \E again \in QuestionAfterClose : reports' = <<Report("Goodbye", "", <<>>), again>>
  /\ UNCHANGED <<toolRegistry, registerToolCalls, entry, history, model>>

CliHelp ==
  /\ CliTake("help")
  /\ reports' = <<Report("Help", "", <<>>), QuestionAsked("You")>>
  /\ UNCHANGED <<toolRegistry, registerToolCalls, entry, pc, history, model>>

CliClear ==
  /\ CliTake("clear")
  /\ history' = <<>>
  /\ reports' = <<Report("Cleared", "", <<>>), QuestionAsked("You")>>
  /\ UNCHANGED <<toolRegistry, registerToolCalls, entry, pc, model>>

CliModel ==
  /\ CliTake("model")
  /\ LET cmd == ToLowerCase(Trim(input')) IN
       IF HasSpace(cmd)
         THEN /\ model' = AfterFirstSpace(cmd)
              /\ reports' = <<Report("ModelChanged", "", AfterFirstSpace(cmd)),
                              QuestionAsked("You")>>
       ELSE /\ model' = model
            /\ reports' = <<Report("CurrentModel", "", model), QuestionAsked("You")>>
  /\ UNCHANGED <<toolRegistry, registerToolCalls, entry, pc, history>>

\* /tool: rl.question('Query: ', ...) is called and processCommand returns
\* true at once, so that the callback of You: calls askQuestion() while
\* Query: is pending
CliTool ==
  /\ CliTake("tool")
  /\ pc' = "query"
  /\ reports' = <<Report("EnterQuery", "", <<>>), QuestionAsked("Query"), QuestionIgnored("You")>>
  /\ UNCHANGED <<toolRegistry, registerToolCalls, entry, history, model>>

\* a line answers Query: and processPrompt(toolQuery, false) is called
CliQuery ==
  /\ pc = "query"
  /\ \E toolQuery \in CliQueries :
       /\ input' = toolQuery
       /\ request' = [api |-> "generate", model |-> model, prompt |-> toolQuery,
                      messages |-> <<>>]
  /\ pc' = "tool"
  /\ modelCalls' = 1
  /\ reports' = <<Report("Processing", "", <<>>)>>
  /\ UNCHANGED <<toolRegistry, registerToolCalls, entry, history, model, before, stream, fullResponse,
                 shown, parsedResponse, dispatched, exec, ret>>

\* processPrompt(toolQuery, false) has settled, and the callback of Query:
\* calls askQuestion()
CliToolRoundEnds ==
  /\ pc = "tool"
  /\ \E o \in {ModelCallFailed}
              \cup {FinishDirect(response, w) : response \in CliResponses, w \in ApiWorlds} :
       /\ parsedResponse' = o.parsed /\ dispatched' = o.dispatched /\ exec' = o.exec
       /\ reports' = (IF o.ret = RetNull THEN o.reports ELSE <<>>) \o <<QuestionAsked("You")>>
  /\ pc' = "awaiting"
  /\ UNCHANGED <<toolRegistry, registerToolCalls, entry, history, model, input, before, request, stream,
                 fullResponse, shown, modelCalls, ret>>

\* a message: history.push, then processPrompt(input, true)
CliFreeform ==
  /\ Len(history) < MaxTurns
  /\ pc = "awaiting"
  /\ \E line \in CliLines :
       /\ CliClassify(line) = "freeform"
       /\ input' = line /\ before' = history
       /\ history' = Append(history, Turn("user", line))
       /\ request' = [api |-> "chat", model |-> model, prompt |-> line,
                      messages |-> <<SystemTurn, Turn("user", line)>>]
  /\ pc' = "round"
  /\ modelCalls' = 1
  /\ reports' = <<>>
  /\ stream' = <<>> /\ fullResponse' = <<>> /\ shown' = <<>> /\ ret' = RetPending
  /\ parsedResponse' = NotParsed /\ dispatched' = <<>> /\ exec' = NoExec
  /\ UNCHANGED <<toolRegistry, registerToolCalls, entry, model>>

\* processPrompt(input, true) has settled (the stream was written out, or
\* the failure was reported), and the callback calls askQuestion()
CliRoundEnds ==
  /\ pc = "round"
  /\ \E text \in {<<>>, <<Pr("Hi")>>} :
       /\ shown' = text
       /\ reports' = <<QuestionAsked("You")>>
  /\ pc' = "awaiting"
  /\ UNCHANGED <<toolRegistry, registerToolCalls, entry, history, model, input, before, request, stream,
                 fullResponse, modelCalls, parsedResponse, dispatched, exec, ret>>

\* the stream or the call of ollama.chat threw
CliRoundFails ==
  /\ pc = "round"
  /\ reports' = <<Report("Unexpected", "", <<>>), QuestionAsked("You")>>
  /\ pc' = "awaiting"
  /\ UNCHANGED <<toolRegistry, registerToolCalls, entry, history, model, input, before, request, stream,
                 fullResponse, shown, modelCalls, parsedResponse, dispatched, exec, ret>>

NextCli ==
  \/ CliBlank \/ CliExit \/ CliHelp \/ CliClear \/ CliModel \/ CliTool \/ CliQuery
  \/ CliToolRoundEnds \/ CliFreeform \/ CliRoundEnds \/ CliRoundFails

\* the chat session of cli/index.ts
SpecCli == InitCli /\ [][NextCli]_vars

(***************************************************************************)
(* The mock mode: runMockPrompt(prompt).  A prompt is a sequence of words  *)
(* with one space between two words; a word is a run of letters ("word"),  *)
(* a numeral ("num") or a question mark ("other").                         *)
(***************************************************************************)
MaxPromptWords == 3

MockWords ==
  {W("weather"), W("Weather"), W("fairweather"), W("in"), W("London"), W("latitude"),
   W("city"), W("located"), W("at"), Num("41.88"), Num("41"), Tok("other", "?")}

MockPrompts ==
  {JoinSp([i \in 1..Len(ws) |-> <<ws[i]>>]) :
     ws \in UNION {[1..n -> MockWords] : n \in 0..MaxPromptWords}}

\* s.includes(needle) for a word of lower-case letters
IncludesWord(s, needle) ==
  \E i \in 1..Len(s) :
    \/ s[i] = W(needle)
    \/ needle = "weather" /\ s[i] = W("fairweather")

\* s.includes('located at')
IncludesLocatedAt(s) ==
  \E i \in 1..(Len(s) - 2) : s[i] = W("located") /\ s[i + 1] = Sp /\ s[i + 2] = W("at")

\* s.match(/\b\d+\.\d+\b/)
MatchesDecimal(s) == \E i \in 1..Len(s) : s[i] = Num("41.88")

RECURSIVE LettersRun(_, _)
\* the longest run of letters and whitespace of s from index i
LettersRun(s, i) ==
  IF i > Len(s) \/ s[i].t \notin {"word", "ws"} THEN <<>>
  ELSE <<s[i]>> \o LettersRun(s, i + 1)

\* prompt.match(/weather in ([a-zA-Z\s]+)/i): the trimmed group of the
\* leftmost match, or London
MockLocation(prompt) ==
  LET lower == ToLowerCase(prompt)
      at == {i \in 1..(Len(prompt) - 4) :
               /\ lower[i] \in {W("weather"), W("fairweather")}
               /\ lower[i + 1] = Sp /\ lower[i + 2] = W("in") /\ lower[i + 3] = Sp
               /\ prompt[i + 4].t = "word"}
      first == CHOOSE i \in at : \A k \in at : i <= k
  IN IF at = {} THEN <<W("London")>> ELSE Trim(LettersRun(prompt, first + 4))

MockCoordinates ==
  ArrV(<<ParamV(<<W("latitude")>>, <<Num("41.881832")>>),
         ParamV(<<W("longitude")>>, <<Tok("other", "-"), Num("87.640406")>>)>>)

\* a selection that tests for weather before it tests for coordinates
mockAIResponseWeatherFirst(prompt) ==
  LET lowerPrompt == ToLowerCase(prompt) IN
  IF IncludesWord(lowerPrompt, "weather")
    THEN CallV(Name("WeatherFromLocation"),
               ArrV(<<ParamV(<<W("location")>>, MockLocation(prompt))>>))
  ELSE IF IncludesLocatedAt(lowerPrompt)
          \/ (IncludesWord(lowerPrompt, "city") /\ MatchesDecimal(lowerPrompt))
    THEN CallV(Name("LatLonToCity"), MockCoordinates)
  ELSE CallV(Name("WebSearch"), ArrV(<<ParamV(<<W("query")>>, prompt)>>))

\* mockAIResponse(prompt)
mockAIResponse(prompt) ==
  LET lowerPrompt == ToLowerCase(prompt) IN
  IF /\ IncludesWord(lowerPrompt, "weather")
     /\ \/ IncludesWord(lowerPrompt, "latitude") \/ IncludesWord(lowerPrompt, "longitude")
        \/ MatchesDecimal(lowerPrompt)
    THEN CallV(Name("WeatherFromLatLon"), MockCoordinates)
  ELSE IF IncludesWord(lowerPrompt, "weather")
    THEN CallV(Name("WeatherFromLocation"),
               ArrV(<<ParamV(<<W("location")>>, MockLocation(prompt))>>))
  ELSE IF IncludesLocatedAt(lowerPrompt)
          \/ (IncludesWord(lowerPrompt, "city") /\ MatchesDecimal(lowerPrompt))
    THEN CallV(Name("LatLonToCity"), MockCoordinates)
  ELSE CallV(Name("WebSearch"), ArrV(<<ParamV(<<W("query")>>, prompt)>>))

\* mockResponses[functionName](params): the names it resolves, in order,
\* and the text it returns
mockResponses(functionName, params) ==
  LET names == CASE functionName = <<W("WeatherFromLocation")>> -> <<"location">>
                 [] functionName = <<W("WebSearch")>> -> <<"query">>
                 [] OTHER -> <<"latitude", "longitude">>
      vals == [n \in 1..Len(names) |-> getParameterValue(<<W(names[n])>>, params)]
      thrown == {n \in 1..Len(names) : vals[n].c # "return"}
  IN IF thrown # {} THEN vals[CHOOSE n \in thrown : \A k \in thrown : n <= k]
     ELSE Returned(StrV(<<Pr("Mock response for")>>
                        \o Flatten([n \in 1..Len(names) |-> <<Sp>> \o vals[n].val.s])))

\* executeMockFunction(functionName, parameters)
executeMockFunction(functionName, parameters) ==
  LET key == ToStringText(functionName) IN
  IF key \in {<<W("WeatherFromLocation")>>, <<W("WeatherFromLatLon")>>, <<W("LatLonToCity")>>,
              <<W("WebSearch")>>}
    THEN Exec(mockResponses(key, parameters), <<>>, "mock")
  ELSE IF key \in ObjectPrototype THEN CallInherited(key, parameters)
  ELSE Exec(ToolError("UNKNOWN_FUNCTION"), <<>>, "")

InitMock ==
  /\ Loaded
  /\ entry = "mock" /\ pc = "call"
  /\ history = <<>> /\ before = <<>>
  /\ model = DefaultModel /\ input \in MockPrompts
  /\ Fresh

\* runMockPrompt(prompt)
RunMockPrompt ==
  /\ pc = "call"
  /\ LET mockResponse == mockAIResponse(input)
         functionName == Get(mockResponse, "functionName")
         parameters == Get(mockResponse, "parameters")
         x == executeMockFunction(functionName, parameters)
     IN /\ parsedResponse' = Returned(mockResponse)
        /\ dispatched' = <<Dispatch(functionName, parameters)>>
        /\ exec' = x
        /\ reports' = <<Report("Selected", "", ToStringText(functionName)),
                        IF x.c = "return" THEN Report("Result", "", ResultStr(x.val))
                        ELSE CatchReport(x)>>
  /\ pc' = "returned"
  /\ UNCHANGED <<toolRegistry, registerToolCalls, entry, history, model, input, before, request, stream,
                 fullResponse, shown, modelCalls, ret>>

NextMock == RunMockPrompt
SpecMock == InitMock /\ [][NextMock]_vars

(***************************************************************************)
(* Properties.                                                             *)
(***************************************************************************)
\* a freeform round of the session has been fully handled
RoundHandled == entry = "chat" /\ pc = "awaiting" /\ Classify(input) = "freeform"

\* every user turn is followed by an assistant turn
NoDanglingUserTurn(h) ==
  \A i \in 1..Len(h) :
    h[i].role = "user" => (i < Len(h) /\ h[i + 1].role = "assistant")

\* C1: once a freeform round has been fully handled no user turn of the
\* history lacks a following assistant turn: a round that fails (model
\* failure, parse failure, tool error, empty response) leaves the history as
\* it was, and a round that succeeds appends exactly the user turn and the
\* assistant turn holding the returned full response.
C1_HandledRoundLeavesNoDanglingTurn ==
  RoundHandled =>
    /\ NoDanglingUserTurn(history)
    /\ IF ret.k = "string" /\ ret.text # <<>>
         THEN history = before \o <<Turn("user", input), Turn("assistant", ret.text)>>
       ELSE history = before

\* the stream of a conversational call has ended and the extraction has run
Extracted == pc = "returned" /\ request.api = "chat" /\ parsedResponse # NotParsed

\* a JSON value that lacks functionName or an array parameters
LacksCallShape(v) ==
  v.k # "obj" \/ Get(v, "functionName") = Undefined \/ ~IsArray(Get(v, "parameters"))

\* texts that are no call descriptor: no JSON, or JSON lacking the shape
NoDescriptorPayloads ==
  NotJSON \cup {Stringify(v) : v \in {x \in InvalidCalls : LacksCallShape(x)}}
NoDescriptorTexts ==
  {Wrap(pre, p, post) : pre \in Proses, p \in NoDescriptorPayloads, post \in Proses}

\* C2: in embedded mode, when the text between the delimiters is not a valid
\* call descriptor (no JSON, or JSON lacking functionName or an array
\* parameters), extraction yields "no call present" and raises no error:
\* the dispatcher is not invoked and the round returns the full response.
C2_InvalidPayloadIsNoCall ==
  (Extracted /\ fullResponse \in NoDescriptorTexts) =>
    /\ parsedResponse = Returned(Null)
    /\ dispatched = <<>>
    /\ ret = RetString(fullResponse)

\* the text holds a start delimiter and, after it, an end delimiter
HasDelimiterPair(text) ==
  \E i, j \in 1..Len(text) : i < j /\ text[i].t = "start" /\ text[j].t = "end"

\* the descriptors of the wire shape, each with the texts that hold it in
\* one delimiter pair between two proses
WrappedCalls ==
  {<<Wrap(pre, Stringify(d), post), d>> : pre \in Proses, d \in ValidCalls, post \in Proses}

\* C3: embedded-mode extraction returns "no call present" for every text
\* without a delimiter pair, and for every text with one delimiter pair
\* around a valid call descriptor it returns exactly that descriptor's
\* functionName and parameters, whatever prose precedes or follows.
C3_ExtractionFindsTheDelimitedCall ==
  Extracted =>
    /\ ~HasDelimiterPair(fullResponse) => parsedResponse = Returned(Null)
    /\ \A wd \in WrappedCalls :
         fullResponse = wd[1] =>
           /\ parsedResponse.c = "return"
           /\ Get(parsedResponse.val, "functionName") = Get(wd[2], "functionName")
           /\ Get(parsedResponse.val, "parameters") = Get(wd[2], "parameters")

\* C3 witness: a descriptor between two non-empty proses has been extracted
C3_Witness ==
  /\ Extracted
  /\ \E wd \in WrappedCalls :
       /\ fullResponse = wd[1] /\ parsedResponse = Returned(wd[2])
       /\ Head(fullResponse).t = "prose" /\ fullResponse[Len(fullResponse)].t = "ws"

\* functionName is a non-empty string and parameters an array of
\* {parameterName: string, parameterValue: string}
WellFormedCall(d) ==
  /\ d.functionName.k = "str" /\ d.functionName.s # <<>>
  /\ IsArray(d.parameters)
  /\ \A i \in 1..Len(d.parameters.items) :
       LET e == d.parameters.items[i].val IN
         /\ e.k = "obj"
         /\ Get(e, "parameterName").k = "str"
         /\ Get(e, "parameterValue").k = "str"

\* C4: in both modes a response is accepted as a call descriptor only if
\* functionName is a non-empty string and parameters an array whose every
\* element has a string parameterName and a string parameterValue; any
\* other response never reaches the dispatcher.
C4_OnlyWellFormedCallsAreDispatched ==
  \A i \in 1..Len(dispatched) : WellFormedCall(dispatched[i])

\* C5: for every function name that has no registered implementation,
\* executeFunction fails with a ToolError of code UNKNOWN_FUNCTION and
\* invokes no implementation, whatever the parameter list.
C5_UnregisteredNameIsUnknownFunction ==
  \A i \in 1..Len(dispatched) :
    (dispatched[i].functionName.k = "str"
       /\ dispatched[i].functionName.s \notin toolImplementations)
    => (exec.c = "ToolError" /\ exec.code = "UNKNOWN_FUNCTION" /\ exec.impl = "")

\* the texts of a direct response that are no JSON or no call descriptor
NoDescriptorResponses ==
  LET ps == NotJSON \cup {Stringify(v) : v \in InvalidCalls}
  IN ps \cup {<<Sp>> \o p \o <<NL>> : p \in ps} \cup {<<Pr("Sure")>> \o Sample}

\* C6: in direct mode, when the response is not valid JSON or not a valid
\* call descriptor, the round ends with a reported parse error: no tool
\* implementation is invoked, the model is not called a second time and
\* processPrompt returns null.
C6_DirectParseFailureEndsTheRound ==
  (pc = "returned" /\ request.api = "generate" /\ parsedResponse # NotParsed
     /\ fullResponse \in NoDescriptorResponses) =>
    /\ Len(reports) = 1 /\ reports[1].kind \in {"ParseError", "Unexpected"}
    /\ dispatched = <<>> /\ exec.impl = ""
    /\ modelCalls = 1
    /\ ret = RetNull

\* the written commands, each with its line
Rendered == {<<RenderCommand(c), c>> : c \in WrittenCommands}

IsRegistered(toolName) == \E t \in 1..Len(TOOLS) : TOOLS[t].name = toolName
Descriptor(toolName) == CHOOSE d \in {TOOLS[t] : t \in 1..Len(TOOLS)} : d.name = toolName
WrittenKeys(c) == {c.args[i].key : i \in 1..Len(c.args)}

\* the required names of the tool of c that c does not write, in
\* descriptor order
RequiredAbsent(c) ==
  LET m == SelectSeq(Descriptor(c.tool).parameters,
                     LAMBDA ps : ps.required /\ ps.name \notin WrittenKeys(c))
  IN [i \in 1..Len(m) |-> m[i].name]

\* a value with each run of whitespace replaced by one space
OneSpace(value) == [i \in 1..Len(value) |-> IF value[i].t = "ws" THEN Sp ELSE value[i]]

\* the first line of the session has been handled, and it was written as c
HandledAs(rc) == entry = "line" /\ pc = "handled" /\ input = rc[1]

\* C7: a /tool command naming a registered tool with every required
\* parameter present invokes the dispatcher exactly once, with that tool
\* name and the parsed (name, value) pairs in the order written, and never
\* invokes the model (neither generate nor chat).
C7_ToolCommandDispatchesOnce ==
  \A rc \in Rendered :
    (HandledAs(rc) /\ IsRegistered(rc[2].tool) /\ RequiredAbsent(rc[2]) = <<>>) =>
      /\ dispatched =
           <<Dispatch(StrV(rc[2].tool),
                      ArrV([i \in 1..Len(rc[2].args) |->
                              ParamV(rc[2].args[i].key, OneSpace(rc[2].args[i].value))]))>>
      /\ modelCalls = 0 /\ request = NoRequest

\* C7 witness: a command of two arguments, one of them quoted, dispatched
C7_Witness ==
  \E rc \in Rendered :
    /\ HandledAs(rc) /\ IsRegistered(rc[2].tool) /\ RequiredAbsent(rc[2]) = <<>>
    /\ Len(rc[2].args) = 2 /\ rc[2].args[1].quoted /\ ~rc[2].args[2].quoted
    /\ Len(dispatched) = 1 /\ exec.c = "return"

\* C8: a /tool command for a registered tool with a required parameter
\* absent reports exactly the missing required names, in descriptor order,
\* does not invoke the dispatcher and leaves the history unchanged.
C8_MissingRequiredParametersReported ==
  \A rc \in Rendered :
    (HandledAs(rc) /\ IsRegistered(rc[2].tool) /\ RequiredAbsent(rc[2]) # <<>>) =>
      /\ reports = <<Report("MissingParameters", "", JoinComma(RequiredAbsent(rc[2])))>>
      /\ dispatched = <<>> /\ exec = NoExec
      /\ history = before

\* C8 witness: WeatherFromLatLon without its two parameters
C8_Witness ==
  \E rc \in Rendered :
    /\ HandledAs(rc) /\ rc[2].tool = <<W("WeatherFromLatLon")>>
    /\ RequiredAbsent(rc[2]) = << <<W("latitude")>>, <<W("longitude")>> >>
    /\ reports # <<>> /\ reports[1].kind = "MissingParameters"

\* C9: the value parsed for key="..." is exactly the characters between the
\* two double quotes, every space and run of whitespace included, and the
\* value parsed for an unquoted key=value is exactly the run of
\* non-whitespace characters after the =.
C9_ParsedValueIsTheWrittenValue ==
  \A rc \in Rendered :
    (HandledAs(rc) /\ dispatched # <<>>) =>
      /\ Len(dispatched[1].parameters.items) = Len(rc[2].args)
      /\ \A i \in 1..Len(rc[2].args) :
           Get(dispatched[1].parameters.items[i].val, "parameterValue")
             = StrV(rc[2].args[i].value)

\* C10: when the tool execution of a /tool command succeeds, the history
\* grows by exactly two turns: a user turn holding the command, then an
\* assistant turn holding the formatted tool result; the earlier turns are
\* unchanged.
C10_ToolSuccessAppendsTwoTurns ==
  (entry = "chat" /\ pc = "awaiting" /\ Classify(input) = "tool"
     /\ dispatched # <<>> /\ exec.c = "return") =>
    history = before \o <<Turn("user", Trim(input)),
                          Turn("assistant", <<ToolResultPrefix>> \o ResultStr(exec.val))>>

\* C10 witness: a /tool command has succeeded after an earlier round
C10_Witness ==
  /\ entry = "chat" /\ pc = "awaiting" /\ Classify(input) = "tool"
  /\ dispatched # <<>> /\ exec.c = "return"
  /\ Len(before) = 3 /\ Len(history) = 5 /\ input # Trim(input)

\* C11: after /clear, whatever turns the history held, the history is
\* exactly the single system turn, and the freeform round that follows sends
\* the model no turn from before the /clear: only the system turn and the
\* user turn of the new line.
C11_ClearStartsAFreshContext ==
  [][/\ (pc = "awaiting" /\ Classify(input') = "clear") => history' = <<SystemTurn>>
     /\ (pc = "awaiting" /\ Classify(input) = "clear" /\ request'.api = "chat") =>
          \A i \in 1..Len(request'.messages) :
            request'.messages[i] \in {SystemTurn, Turn("user", input')}]_vars

\* C11 witness: a /clear has been handled on a history of two full rounds
C11_Witness ==
  /\ entry = "chat" /\ pc = "awaiting" /\ Classify(input) = "clear"
  /\ Len(before) = 5 /\ history = <<SystemTurn>>

\* C12: once an exit or quit command has been handled the session is
\* ended: the input stream is closed, no further prompt for input is issued
\* on it (no question is asked of the closed interface, whether it would be
\* written or refused), and no later line is classified or processed.
C12_ExitEndsTheSession ==
  pc = "closed" =>
    /\ Classify(input) = "exit"
    /\ \A i \in 1..Len(reports) : reports[i] \notin QuestionAfterClose

\* C13: at most one model call or tool call is in flight: while a round is
\* in flight the session takes no next line and issues no second call, and
\* the round ends in one step that holds its result and the history update,
\* after which the session awaits input.
C13_OneCallInFlight ==
  [][/\ modelCalls' <= 1 /\ Len(dispatched') <= 1
     /\ pc = "streaming" =>
          /\ input' = input /\ before' = before
          /\ request' = request /\ modelCalls' = modelCalls
          /\ pc' \in {"streaming", "awaiting"}
          /\ pc' = "streaming" =>
               history' = history /\ dispatched' = <<>> /\ exec' = NoExec /\ ret' = RetPending
          /\ pc' = "awaiting" => ret' # RetPending]_vars

\* C13 witness: a second round is in flight, part of its stream consumed
C13_Witness ==
  /\ entry = "chat" /\ pc = "streaming" /\ fullResponse # <<>> /\ stream # <<>>
  /\ Len(before) = 3 /\ modelCalls = 1


\* a call of processPrompt has ended
RoundEnded ==
  /\ modelCalls = 1
  /\ pc \in {"awaiting", "returned", "rejected", "exited", "fatal"}

\* the model call of the round threw: nothing was parsed
ModelFailed == RoundEnded /\ parsedResponse = NotParsed

\* parsing the answer threw a SyntaxError
SyntaxFailed == RoundEnded /\ parsedResponse.c = "SyntaxError"

\* the dispatched tool threw a ToolError
ToolFailed == RoundEnded /\ exec.c = "ToolError"

\* C14: a model-invocation failure, a JSON syntax failure or a ToolError
\* raised during a round never escapes processPrompt: it is reported once,
\* processPrompt returns null, no later step of the round runs (nothing is
\* parsed after a model failure, nothing is dispatched after a syntax
\* failure, no result is shown and no answer is recorded after a ToolError),
\* and a chat session is awaiting input again.
C14_FailuresEndTheRoundWithNull ==
  (ModelFailed \/ SyntaxFailed \/ ToolFailed) =>
    /\ ret = RetNull
    /\ pc \notin {"rejected", "fatal"}
    /\ Len(reports) = 1
    /\ reports[1].kind = (IF ModelFailed THEN "Unexpected"
                          ELSE IF SyntaxFailed THEN "ParseError" ELSE "ToolError")
    /\ ToolFailed => reports[1].code = exec.code
    /\ ~ToolFailed => dispatched = <<>> /\ exec = NoExec
    /\ entry = "chat" => pc = "awaiting" /\ history = Append(before, Turn("user", input))
    /\ entry = "prompt" => history = before

C14_Witness ==
  /\ entry = "chat" /\ ToolFailed /\ exec.code = "UNKNOWN_FUNCTION"
  /\ Len(history) = 4

\* C15 as stated: when the generate or chat call fails the failure is fatal,
\* so the session never awaits input again after it and the process never
\* ends with exit code 0.
C15_ModelFailureIsFatal ==
  ModelFailed => pc \notin {"awaiting", "exited"}

\* C15, amended: a failure of the generate or chat call is recovered like
\* every other failure of a round: processPrompt reports it as an unexpected
\* error and returns null, a chat session awaits input again and a one-shot
\* run ends with exit code 0; no failure of a round rejects processPrompt or
\* ends the process with a non-zero exit code.
C15_ModelFailureIsRecovered ==
  /\ pc \notin {"rejected", "fatal"}
  /\ ModelFailed =>
       /\ ret = RetNull
       /\ reports = <<Report("Unexpected", "", <<>>)>>
       /\ entry = "chat" => pc = "awaiting"
       /\ entry = "prompt" => pc \in {"returned", "exited"}

C15_Witness ==
  /\ entry = "prompt" /\ ModelFailed /\ pc = "exited" /\ request.api = "generate"

\* the line taken by a step of an awaiting session is a /model command
ModelLine(line) == pc = "awaiting" /\ Classify(line) = "model"

\* C16: handling `/model X` makes X the active model name, `/model` alone
\* leaves the model name and the history as they are, no other step changes
\* the model name, and every model invocation names the active model: so
\* every invocation after `/model X` uses X until the next `/model Y`.
C16_ModelCommandSetsTheModel ==
  [][/\ ModelLine(input') =>
          LET cmd == Trim(input') IN
          /\ history' = history /\ modelCalls' = 0 /\ request' = NoRequest
          /\ Len(cmd) = 1 => model' = model
          /\ (Len(cmd) >= 3 /\ cmd[2] = Sp) => model' = SubSeq(cmd, 3, Len(cmd))
     /\ ~ModelLine(input') => model' = model
     /\ (request' # request /\ request' # NoRequest) => request'.model = model
    ]_vars

C16_Witness ==
  /\ entry = "chat" /\ pc = "streaming" /\ request.api = "chat"
  /\ model = <<W("mistral")>> /\ request.model = <<W("mistral")>>
  /\ Len(before) = 3

\* C17: a line that is empty or holds only whitespace causes a re-prompt and
\* nothing else: the history, the active model name and the session state
\* are unchanged, nothing is reported, and neither the model nor a tool is
\* invoked.
C17_BlankLineChangesNothing ==
  [][(pc = "awaiting" /\ \A i \in 1..Len(input') : input'[i].t = "ws") =>
       /\ history' = history /\ model' = model /\ pc' = "awaiting"
       /\ modelCalls' = 0 /\ request' = NoRequest
       /\ dispatched' = <<>> /\ exec' = NoExec /\ reports' = <<>>
    ]_vars

C17_Witness ==
  /\ entry = "chat" /\ pc = "awaiting" /\ input # <<>>
  /\ \A i \in 1..Len(input) : input[i].t = "ws"
  /\ Len(history) = 3 /\ before = history /\ model = <<W("mistral")>>

\* the names an implementation resolves, in the order of the arguments of
\* the first API call it makes
ResolvedNames(impl) ==
  CASE impl = "WeatherFromLocation" -> <<"location">>
    [] impl = "WebSearch" -> <<"query">>
    [] OTHER -> <<"latitude", "longitude">>

\* the entries of the dispatched list whose parameterName is exactly name
ExactMatches(name) ==
  LET es == Elems(dispatched[1].parameters) IN
  {i \in 1..Len(es) : es[i].k = "obj" /\ Get(es[i], "parameterName") = StrV(<<W(name)>>)}

\* the parameterValue of the first of them
FirstExactValue(name) ==
  LET es == Elems(dispatched[1].parameters)
      first == CHOOSE i \in ExactMatches(name) : \A j \in ExactMatches(name) : i <= j
  IN Get(es[first], "parameterValue")

\* a registered implementation ran on a /tool command
ToolRan ==
  /\ entry = "line" /\ pc = "handled" /\ dispatched # <<>>
  /\ exec.impl \in {"WeatherFromLocation", "WeatherFromLatLon", "WebSearch"}

\* C18: getParameterValue returns the parameterValue of the first entry, in
\* list order, whose parameterName equals the name exactly: what a tool
\* passes to its first API call is, for each name it resolves, the value of
\* the first exact match, whatever entries of the same name follow and
\* whatever entries differing in letter case precede; and a name with no
\* exact match resolves to no value, so that no API call is made.
C18_FirstExactMatchIsReturned ==
  ToolRan =>
    LET names == ResolvedNames(exec.impl) IN
    /\ exec.calls # <<>> =>
         /\ \A n \in 1..Len(names) : ExactMatches(names[n]) # {}
         /\ exec.calls[1].args = [n \in 1..Len(names) |-> FirstExactValue(names[n])]
    /\ (\A n \in 1..Len(names) : ExactMatches(names[n]) # {}) => exec.calls # <<>>

C18_Witness ==
  /\ ToolRan /\ exec.impl = "WeatherFromLocation" /\ exec.calls # <<>>
  /\ ExactMatches("location") = {1, 2}
  /\ exec.calls[1].args = <<StrV(<<W("New"), Sp, W("York")>>)>>
  /\ FirstExactValue("location") # Get(Elems(dispatched[1].parameters)[2], "parameterValue")

\* a registered implementation ran on the call parsed from the answer, its
\* parameters a list
ImplementationRan ==
  /\ entry = "prompt" /\ pc \in {"returned", "exited"} /\ dispatched # <<>>
  /\ IsArray(dispatched[1].parameters)
  /\ exec.impl \in {"WeatherFromLocation", "WeatherFromLatLon", "LatLonToCity", "WebSearch"}

\* C19: a registered tool called with a parameter list that omits one of
\* the names it resolves fails with the ToolError MISSING_PARAMETER before
\* any API call; when the list holds every name, the values resolved are
\* the arguments of the API call.
C19_OmittedNameIsMissingParameter ==
  ImplementationRan =>
    LET names == ResolvedNames(exec.impl)
        omitted == {n \in 1..Len(names) : ExactMatches(names[n]) = {}}
    IN /\ omitted # {} =>
            /\ exec.c = "ToolError" /\ exec.code = "MISSING_PARAMETER"
            /\ exec.calls = <<>>
       /\ omitted = {} =>
            /\ exec.calls # <<>>
            /\ exec.calls[1].args = [n \in 1..Len(names) |-> FirstExactValue(names[n])]

\* what the implementation impl does on parameters in the world w
ImplementationResult(impl, parameters, w) ==
  CASE impl = "WeatherFromLocation" -> WeatherFromLocationImpl(parameters, w)
    [] impl = "WeatherFromLatLon" -> WeatherFromLatLonImpl(parameters, w)
    [] impl = "LatLonToCity" -> LatLonToCityImpl(parameters, w)
    [] OTHER -> WebSearchImpl(parameters, w)

\* executeFunction ran a registered implementation for processPrompt
Dispatched ==
  /\ entry = "prompt" /\ pc \in {"returned", "exited"} /\ dispatched # <<>>
  /\ exec.impl \in {"WeatherFromLocation", "WeatherFromLatLon", "LatLonToCity", "WebSearch"}

\* C20: what a tool implementation raises reaches the caller of
\* executeFunction as it was raised: the completion the caller sees is the
\* completion of one run of the implementation on the dispatched
\* parameters, error code included, the caller reports that code, and the
\* implementation is run once (no API operation is called twice).
C20_ToolErrorsPropagateUnchanged ==
  Dispatched =>
    /\ Len(dispatched) = 1
    /\ \E w \in AllApiWorlds :
         exec = ImplementationResult(exec.impl, dispatched[1].parameters, w)
    /\ \A i, j \in 1..Len(exec.calls) : exec.calls[i].op = exec.calls[j].op => i = j
    /\ exec.c = "ToolError" =>
         /\ exec.code \in {"MISSING_PARAMETER", "GEOCODING_ERROR", "CITY_NOT_FOUND",
                            "WEATHER_ERROR", "REVERSE_GEOCODING_ERROR", "LOCATION_NOT_FOUND",
                            "SEARCH_ERROR", "NO_SEARCH_RESULTS"}
         /\ reports = <<Report("ToolError", exec.code, <<>>)>>

C20_Witness ==
  /\ Dispatched /\ exec.impl = "WeatherFromLocation"
  /\ exec.c = "ToolError" /\ exec.code = "CITY_NOT_FOUND"
  /\ Len(exec.calls) = 1 /\ ret = RetNull

\* WeatherFromLocation ran and resolved its location
WeatherFromLocationRan ==
  /\ Dispatched /\ exec.impl = "WeatherFromLocation" /\ exec.calls # <<>>

\* the coordinates and temperatures the providers may answer
Coordinates == {w.coords : w \in AllApiWorlds}
Temperatures == {w.temp : w \in AllApiWorlds}

\* C21: WeatherFromLocation calls geocode first, with the resolved location;
\* it calls the temperature lookup only after geocode has succeeded, and
\* with the coordinates geocode returned, latitude first; when geocode
\* fails the temperature lookup is not called and the failure is the
\* result; on success the result is '<temperature> degrees Fahrenheit'.
C21_GeocodeThenTemperature ==
  WeatherFromLocationRan =>
    LET calls == exec.calls IN
    /\ calls[1].op = "getCityCoordinates"
    /\ calls[1].args = <<FirstExactValue("location")>>
    /\ Len(calls) <= 2
    /\ calls[1].fetch # "ok" =>
         /\ Len(calls) = 1
         /\ exec.c = "ToolError" /\ exec.code \in {"GEOCODING_ERROR", "CITY_NOT_FOUND"}
    /\ calls[1].fetch = "ok" =>
         /\ Len(calls) = 2 /\ calls[2].op = "getWeather"
         /\ \E c \in Coordinates :
              calls[2].args = <<StrV(<<W(c[1])>>), StrV(<<W(c[2])>>)>>
         /\ calls[2].fetch # "ok" => exec.c = "ToolError" /\ exec.code = "WEATHER_ERROR"
         /\ calls[2].fetch = "ok" =>
              /\ exec.c = "return"
              /\ \E t \in Temperatures :
                   exec.val = StrV(<<Tok("num", t), Sp, W("degrees"), Sp, W("Fahrenheit")>>)

C21_Witness ==
  /\ WeatherFromLocationRan /\ Len(exec.calls) = 2
  /\ exec.calls[2].args = <<StrV(<<W("40.7")>>), StrV(<<W("-74.0")>>)>>
  /\ exec.val = StrV(<<Tok("num", "31"), Sp, W("degrees"), Sp, W("Fahrenheit")>>)
  /\ reports = <<Report("Result", "", ResultStr(exec.val))>>

\* C22: every line other than exit/quit brings the session back to awaiting
\* input, with one new prompt: a line handled without the model is handled
\* in one step that ends awaiting, a freeform line starts a round, a round
\* ends only by returning to awaiting, and every round whose stream is
\* consumed does end.
C22_EveryLineReturnsToAwaiting ==
  /\ [][/\ (pc = "awaiting" /\ Classify(input') # "exit") => pc' \in {"awaiting", "streaming"}
        /\ (pc = "awaiting" /\ pc' = "streaming") => Classify(input') = "freeform"
        /\ (pc = "streaming" /\ pc' # "streaming") => pc' = "awaiting"
        /\ pc' = "closed" => Classify(input') = "exit"]_vars
  /\ (pc = "streaming") ~> (pc = "awaiting")

C22_Witness ==
  /\ entry = "chat" /\ pc = "awaiting" /\ Classify(input) = "freeform"
  /\ modelCalls = 1 /\ ret # RetPending /\ stream = <<>> /\ fullResponse # <<>>
  /\ Len(history) = 5

\* the calls that register a name for the first time, and the last call
\* that registers the name of call i
FirstRegistrations ==
  {i \in 1..Len(registerToolCalls) :
     \A j \in 1..(i - 1) :
       registerToolCalls[j].definition.name # registerToolCalls[i].definition.name}
LastRegistration(i) ==
  CHOOSE j \in 1..Len(registerToolCalls) :
    /\ registerToolCalls[j].definition.name = registerToolCalls[i].definition.name
    /\ \A k \in (j + 1)..Len(registerToolCalls) :
         registerToolCalls[k].definition.name # registerToolCalls[i].definition.name

\* the k-th name registered
NthRegistered(k) ==
  CHOOSE i \in FirstRegistrations : Cardinality({j \in FirstRegistrations : j <= i}) = k

\* C23: the descriptor list is in registration order, one entry for each
\* name in the order in which the names were first registered; the
\* descriptor and the implementation stored for a name are those of the
\* last registration of that name.
C23_RegistrationOrderLastWriteWins ==
  entry = "registry" =>
    /\ Len(toolRegistry) = Cardinality(FirstRegistrations)
    /\ \A k \in 1..Len(toolRegistry) :
         LET last == registerToolCalls[LastRegistration(NthRegistered(k))] IN
         /\ listDescriptors(toolRegistry)[k] = last.definition
         /\ toolRegistry[k].implementation = last.implementation
         /\ toolRegistry[k].name = last.definition.name

C23_Witness ==
  /\ entry = "registry" /\ pc = "loaded" /\ Len(registerToolCalls) = 3
  /\ registerToolCalls[1].definition = WebSearch
  /\ registerToolCalls[2].definition = ReadFile
  /\ registerToolCalls[3].definition.name = WebSearch.name
  /\ registerToolCalls[3] # registerToolCalls[1]
  /\ listDescriptors(toolRegistry) = <<registerToolCalls[3].definition, ReadFile>>

\* a direct round has parsed the answer of the model
DirectRoundEnded ==
  /\ entry = "prompt" /\ request.api = "generate" /\ pc \in {"returned", "exited"}

\* C24: strict-mode parsing is a function of the text alone: whenever the
\* answer is the text of a valid call descriptor, whatever the history and
\* whatever whitespace surrounds it, the descriptor parsed has the function
\* name and the parameter sequence the text states, so that two parses of
\* one text are equal; and the parse leaves the history, the model name and
\* the prompt as they were.
C24_StrictParseIsAFunctionOfTheText ==
  DirectRoundEnded =>
    /\ history = before /\ model = DefaultModel /\ input \in Prompts
    /\ \A v \in ValidCalls :
         Trim(fullResponse) = Stringify(v) =>
           /\ parsedResponse.c = "return"
           /\ Get(parsedResponse.val, "functionName") = Get(v, "functionName")
           /\ Elems(Get(parsedResponse.val, "parameters")) = Elems(Get(v, "parameters"))

C24_Witness ==
  /\ DirectRoundEnded /\ Len(history) = 3
  /\ fullResponse # Trim(fullResponse)
  /\ \E v \in ValidCalls :
       /\ Trim(fullResponse) = Stringify(v)
       /\ Len(Elems(Get(v, "parameters"))) = 2
       /\ parsedResponse = Returned(v)

\* C25: in a freeform round of a session the message list sent to the model
\* is the history as it stood before the line was read, followed by one
\* user message carrying the line: the line appears once, as the last
\* message.
C25_RequestIsHistoryPlusOneUserTurn ==
  (entry = "chat" /\ request.api = "chat") =>
    /\ request.messages = Append(before, Turn("user", input))
    /\ Cardinality({i \in 1..Len(request.messages) :
                       request.messages[i] = Turn("user", input)
                       /\ i > Len(before)}) = 1

\* C26: in conversational mode the response accumulated starts empty, each
\* step of the loop takes the first chunk left in the stream and appends its
\* content both to the display and to the response (a chunk without content
\* appends nothing), what is displayed is what is accumulated whenever the
\* next chunk is taken, and the text a round returns is the response
\* accumulated once the stream is empty.
C26_ResponseIsTheChunksInOrder ==
  [][/\ (pc # "streaming" /\ pc' = "streaming") => fullResponse' = <<>> /\ shown' = <<>>
     /\ pc' = "streaming" => shown' = fullResponse'
     /\ (pc = "streaming" /\ pc' = "streaming") =>
          /\ stream # <<>> /\ stream' = Tail(stream)
          /\ fullResponse' = StrConcat(fullResponse, Head(stream))
          /\ Head(stream) = <<>> => fullResponse' = fullResponse /\ shown' = shown
     /\ (pc = "streaming" /\ pc' # "streaming") =>
          /\ fullResponse' = fullResponse /\ shown' = shown
          /\ ret'.k = "string" => stream = <<>> /\ ret'.text = fullResponse
    ]_vars

C26_Witness ==
  /\ entry = "prompt" /\ pc = "returned" /\ request.api = "chat"
  /\ ret = RetString(fullResponse) /\ shown = fullResponse
  /\ fullResponse = Wrap(<<END>>, Sample, <<END>>) /\ stream = <<>>
  /\ dispatched # <<>>

\* the text between the first start delimiter and the first end delimiter
\* after it (the text has both)
FirstPairPayload(text) ==
  LET st == CHOOSE i \in 1..Len(text) :
              text[i].t = "start" /\ \A k \in 1..(i - 1) : text[k].t # "start"
      en == CHOOSE j \in (st + 1)..Len(text) :
              text[j].t = "end" /\ \A k \in (st + 1)..(j - 1) : text[k].t # "end"
  IN SubSeq(text, st + 1, en - 1)

\* two calls, each in its own delimiter pair
TwoCalls ==
  Wrap(<<>>, Sample, <<>>)
  \o Wrap(<<Pr("Sure")>>, Stringify(CallV(Name("UnknownTool"), ArrV(<<>>))), <<>>)

\* C27: in a conversational round the dispatcher is not invoked while the
\* stream is being consumed; it is invoked at most once, in the step that
\* ends the round, the stream being empty; the call it is given is the one
\* written in the first delimiter pair of the accumulated text, and of two
\* calls in two pairs the first is dispatched.
C27_DispatchAfterTheStreamOnce ==
  [][request'.api = "chat" =>
       /\ Len(dispatched') <= 1
       /\ pc' = "streaming" => dispatched' = <<>> /\ exec' = NoExec
       /\ (dispatched = <<>> /\ dispatched' # <<>>) =>
            /\ pc = "streaming" /\ pc' # "streaming" /\ stream = <<>>
            /\ HasDelimiterPair(fullResponse)
            /\ LET j == JSONParse(FirstPairPayload(fullResponse)) IN
               /\ j.ok
               /\ dispatched'[1] = Dispatch(Get(j.val, "functionName"), Get(j.val, "parameters"))
       /\ (pc = "streaming" /\ stream = <<>> /\ fullResponse = TwoCalls) =>
            dispatched' = <<Dispatch(Name("WebSearch"),
                                     ArrV(<<ParamV(<<W("query")>>, <<W("cats")>>)>>))>>
    ]_vars

C27_Witness ==
  /\ entry = "prompt" /\ pc = "returned" /\ request.api = "chat"
  /\ fullResponse = TwoCalls /\ stream = <<>>
  /\ Len(dispatched) = 1 /\ dispatched[1].functionName = Name("WebSearch")
  /\ exec.impl = "WebSearch"

\* the text holds no call: no delimiter pair, or a first pair whose text is
\* no JSON or JSON lacking the call shape
HoldsNoCall(text) ==
  \/ ~HasDelimiterPair(text)
  \/ LET j == JSONParse(FirstPairPayload(text)) IN ~j.ok \/ LacksCallShape(j.val)

\* C28: a conversational round whose stream has ended with a text that holds
\* no call is a success: nothing is dispatched, nothing is reported, the
\* accumulated text is returned, and in a session the history grows by the
\* user turn and the assistant turn holding that text.
C28_NoCallRoundSucceeds ==
  (/\ request.api = "chat" /\ pc \in {"awaiting", "returned"}
   /\ parsedResponse # NotParsed /\ HoldsNoCall(fullResponse)) =>
    /\ dispatched = <<>>
    /\ reports = <<>>
    /\ ret = RetString(fullResponse)
    /\ entry = "chat" =>
         history = before \o <<Turn("user", input), Turn("assistant", fullResponse)>>

\* the line handled last is a /tool command
ToolCommandHandled == entry = "chat" /\ Classify(input) = "tool"

\* the /tool command names no tool of TOOLS
UnknownToolNamed ==
  LET parts == ToolCommandParts(Trim(input)) IN
    /\ parts[1] # <<>>
    /\ \A i \in 1..Len(TOOLS) : TOOLS[i].name # parts[1]

\* C29: when a /tool command fails, its tool name being unknown or the
\* tool throwing a ToolError or another error, the failure is reported (a
\* ToolError with its code), the history is what it was before the command,
\* no request to the model is made, and the session awaits the next line.
C29_FailedToolCommandChangesNothing ==
  (ToolCommandHandled /\ (UnknownToolNamed \/ exec.c # "return")) =>
    /\ reports # <<>>
    /\ LET last == reports[Len(reports)] IN
         IF UnknownToolNamed THEN last.kind = "UnknownTool" /\ dispatched = <<>>
         ELSE IF exec.c = "ToolError" THEN last = Report("ToolError", exec.code, <<>>)
         ELSE last.kind = "ErrorExecutingTool"
    /\ history = before
    /\ modelCalls = 0 /\ request = NoRequest
    /\ pc = "awaiting"

C29_Witness ==
  /\ ToolCommandHandled /\ pc = "awaiting"
  /\ Len(dispatched) = 1 /\ exec.c = "ToolError" /\ exec.code = "CITY_NOT_FOUND"
  /\ Len(before) > 1 /\ history = before

\* the code the ApiService operation gives a failed request, and the code
\* it gives an empty result set
OwnCode(op, fetch) ==
  IF fetch = "empty"
    THEN CASE op = "getCityCoordinates" -> "CITY_NOT_FOUND"
           [] op = "getCityFromCoordinates" -> "LOCATION_NOT_FOUND"
           [] op = "webSearch" -> "NO_SEARCH_RESULTS"
  ELSE CASE op = "getCityCoordinates" -> "GEOCODING_ERROR"
         [] op = "getCityFromCoordinates" -> "REVERSE_GEOCODING_ERROR"
         [] op = "getWeather" -> "WEATHER_ERROR"
         [] op = "webSearch" -> "SEARCH_ERROR"

\* C30: an ApiService operation whose request fails (transport failure,
\* unreadable body, non-success status) or whose result set is empty ends
\* the tool with a ToolError carrying the code of that operation; the
\* ToolError of a non-success status keeps its message, it is not wrapped
\* again as a failure to fetch; the operations before the failing one
\* succeeded and none is called after it.
C30_ApiFailuresCarryTheOperationCode ==
  \A i \in 1..Len(exec.calls) :
    LET call == exec.calls[i] IN
      IF i < Len(exec.calls) THEN call.fetch = "ok"
      ELSE call.fetch # "ok" =>
             /\ exec.c = "ToolError"
             /\ exec.code = OwnCode(call.op, call.fetch)
             /\ call.fetch = "status" =>
                  exec.val = StrV(<<Tok("other", "API request failed with status")>>)
             /\ call.fetch \in {"transport", "badbody"} =>
                  exec.val = StrV(<<Tok("other", "Failed to fetch data")>>)
             /\ reports # <<>>
             /\ reports[Len(reports)] = Report("ToolError", exec.code, <<>>)

C30_Witness ==
  /\ entry = "prompt" /\ Len(exec.calls) = 2
  /\ exec.calls[2].op = "getWeather" /\ exec.calls[2].fetch = "status"
  /\ exec.c = "ToolError" /\ exec.code = "WEATHER_ERROR"

\* C31: in every state of a session the history is not empty, its first
\* turn is the system turn, and no later turn is a system turn.
C31_HistoryStartsWithTheOnlySystemTurn ==
  entry = "chat" =>
    /\ history # <<>>
    /\ history[1] = SystemTurn
    /\ \A i \in 2..Len(history) : history[i].role # "system"

\* C31 witness: a /clear handled on a history that held a round
C31_Witness ==
  /\ entry = "chat" /\ pc = "awaiting" /\ Classify(input) = "clear"
  /\ Len(before) = 3 /\ before[2].role = "user" /\ Len(history) = 1

\* C32: once a freeform round has been handled whose stream ended and
\* whose text, not empty, was shown, the history is the history before the
\* round, the user turn and the assistant turn holding that text, also when
\* the call of the text was dispatched and threw a ToolError.
C32_ShownAnswerIsInHistory ==
  (/\ RoundHandled /\ parsedResponse # NotParsed
   /\ fullResponse # <<>> /\ shown = fullResponse) =>
    history = before \o <<Turn("user", input), Turn("assistant", fullResponse)>>

\* the line is a freeform prompt as the words of the classification have
\* it: trimmed and in lower case it is none of exit, quit, /help, /clear,
\* and its first whitespace-delimited token is neither /tool nor /model (a
\* blank line has no token and is no prompt)
FreeformAsWritten(line) ==
  LET lower == ToLowerCase(Trim(line)) IN
    /\ lower # <<>>
    /\ lower \notin {<<W("exit")>>, <<W("quit")>>, <<Cmd("/help")>>, <<Cmd("/clear")>>}
    /\ SplitWs(lower)[1] \notin {<<Cmd("/tool")>>, <<Cmd("/model")>>}

\* C33: the line handled last was sent to the model, and appended to the
\* history as a user turn, exactly when it is a freeform prompt as written
\* above; every other line is handled without a request to the model.
C33_FreeformIffNoCommand ==
  entry = "chat" =>
    /\ modelCalls = 1 <=> FreeformAsWritten(input)
    /\ modelCalls = 1 =>
         /\ request.api = "chat" /\ request.prompt = input
         /\ Len(history) > Len(before)
         /\ history[Len(before) + 1] = Turn("user", input)
    /\ modelCalls = 0 => request = NoRequest

\* the parameter names of all descriptors
AllParameterNames ==
  UNION {{TOOLS[t].parameters[p].name : p \in 1..Len(TOOLS[t].parameters)} : t \in 1..Len(TOOLS)}

\* a parameters array that holds every name of names, in some order
ListOf(names) ==
  LET RECURSIVE build(_)
      build(ns) == IF ns = {} THEN <<>>
                   ELSE LET n == CHOOSE x \in ns : TRUE
                        IN <<ParamV(n, <<W("41")>>)>> \o build(ns \ {n})
  IN ArrV(build(names))

\* the implementation of the tool resolves the name: given every name but
\* this one it throws MISSING_PARAMETER
Resolves(tool, name) ==
  LET x == executeFunction(StrV(tool.name), ListOf(AllParameterNames \ {name}),
                           World("ok", "ok", "ok", "ok", <<"51.5", "-0.12">>, "72.5"))
  IN x.c = "ToolError" /\ x.code = "MISSING_PARAMETER"

\* C34: a /tool command that passed the validation of the required
\* parameters and was dispatched never ends in MISSING_PARAMETER; for each
\* tool of TOOLS every name its implementation resolves is a parameter its
\* descriptor marks as required.
C34_ValidatedCommandResolvesEveryName ==
  /\ ToolRan => ~(exec.c = "ToolError" /\ exec.code = "MISSING_PARAMETER")
  /\ \A t \in 1..Len(TOOLS) : \A name \in AllParameterNames :
       Resolves(TOOLS[t], name) =>
         \E p \in 1..Len(TOOLS[t].parameters) :
           TOOLS[t].parameters[p].name = name /\ TOOLS[t].parameters[p].required

\* C34 witness: WeatherFromLatLon dispatched with both coordinates, the
\* latitude written after the longitude
C34_Witness ==
  /\ ToolRan /\ exec.impl = "WeatherFromLatLon" /\ exec.c = "return"
  /\ Len(Elems(dispatched[1].parameters)) = 2
  /\ Get(Elems(dispatched[1].parameters)[2], "parameterName") = StrV(<<W("latitude")>>)
  /\ Resolves(WeatherFromLatLon, <<W("longitude")>>)

\* the names advertised to the model in toolsString and accepted by /tool
Advertised == {TOOLS[t].name : t \in 1..Len(TOOLS)}

\* C35: the names the dispatcher executes are the advertised names: a call
\* under an advertised name, from the model or from a /tool command, never
\* ends in UNKNOWN_FUNCTION, and a call under any other name always does.
C35_ExecutableNamesAreTheAdvertisedNames ==
  \A i \in 1..Len(dispatched) :
    dispatched[i].functionName.k = "str" =>
      (dispatched[i].functionName.s \in Advertised
         <=> ~(exec.c = "ToolError" /\ exec.code = "UNKNOWN_FUNCTION"))

RECURSIVE Whole(_, _)
\* the text accumulated followed by the content of the chunks to come
Whole(text, chunks) ==
  IF chunks = <<>> THEN text ELSE Whole(StrConcat(text, Head(chunks)), Tail(chunks))

\* C36: the outcome of a conversational round depends on the concatenated
\* content of the stream only: each step of the loop leaves the accumulated
\* text followed by the chunks to come unchanged, wherever the chunks are
\* cut (between tokens, inside a delimiter, inside a JSON string), so that
\* when the stream has ended the accumulated text is the whole content with
\* no piece left cut; the text returned, the call extracted and the call
\* dispatched are those of that text.
C36_OutcomeDependsOnTheContentOnly ==
  [][request'.api = "chat" =>
       /\ (pc = "call" /\ pc' = "streaming") => Whole(<<>>, stream') \in ChatTexts
       /\ (pc = "streaming" /\ pc' = "streaming") =>
            Whole(fullResponse', stream') = Whole(fullResponse, stream)
       /\ (pc = "streaming" /\ stream = <<>> /\ pc' # "streaming") =>
            LET r == extractAndParseJSON(fullResponse) IN
              /\ fullResponse \in ChatTexts
              /\ parsedResponse' = r
              /\ dispatched' = IF r.c = "return" /\ Truthy(r.val)
                                 THEN <<Dispatch(Get(r.val, "functionName"),
                                                 Get(r.val, "parameters"))>>
                               ELSE <<>>
              /\ ret'.k = "string" => ret'.text = fullResponse
    ]_vars

\* C36 witness: the first chunk ended inside the start delimiter, the
\* second chunk brings its other half, the call and the end delimiter
C36_Witness ==
  /\ entry = "prompt" /\ pc = "streaming"
  /\ fullResponse = <<END, Cut1(START)>>
  /\ stream = << <<Cut2(START)>> \o Sample \o <<END, END>> >>

\* the characters of sub stand in text
Occurs(sub, text) ==
  \E i \in 0..(Len(text) - Len(sub)) : SubSeq(text, i + 1, i + Len(sub)) = sub

\* C37: once a freeform round has been handled in which a call was
\* extracted, dispatched and executed without error, the round has
\* appended the user turn and one assistant turn, the text accumulated
\* from the model with its delimited call; the result of the tool stands in
\* no turn the round appended, and the model was called once.
C37_ToolResultStaysOutOfHistory ==
  (RoundHandled /\ dispatched # <<>> /\ exec.c = "return") =>
    /\ history = before \o <<Turn("user", input), Turn("assistant", fullResponse)>>
    /\ HasDelimiterPair(fullResponse)
    /\ \A i \in (Len(before) + 1)..Len(history) :
         ~Occurs(ResultStr(exec.val), history[i].content)
    /\ modelCalls = 1
    /\ Len(dispatched) = 1

\* C37 witness: a WebSearch call of the model answered by the provider, in
\* a session that has a round behind it
C37_Witness ==
  /\ RoundHandled /\ exec.impl = "WebSearch" /\ exec.c = "return"
  /\ Len(before) = 3 /\ Len(history) = 5
  /\ history[5] = Turn("assistant", <<Pr("Sure"), START>> \o Sample \o <<END>>)

\* C38: processPrompt leaves the history array it was given as it is, in
\* direct and in conversational mode, whether the round succeeds or fails;
\* the request of direct mode holds the prompt and no turn (its system
\* instruction is the fixed SYSTEM_PROMPT), and the request of
\* conversational mode holds the turns of the history before its own.
C38_ProcessPromptLeavesHistory ==
  entry = "prompt" =>
    /\ history = before
    /\ request.api = "generate" => request.messages = <<>> /\ request.prompt = input
    /\ (request.api = "chat" /\ history # <<>>) =>
         SubSeq(request.messages, 1, Len(history)) = history

\* C38 witness: a direct round, given a history of three turns, has failed
\* with a ToolError
C38_Witness ==
  /\ entry = "prompt" /\ pc = "returned" /\ request.api = "generate"
  /\ Len(history) = 3 /\ history = before
  /\ exec.c = "ToolError" /\ ret = RetNull

Mentions(word) == IncludesWord(ToLowerCase(input), word)
AsksWeather == Mentions("weather")
GivesCoordinates ==
  Mentions("latitude") \/ Mentions("longitude") \/ MatchesDecimal(input)
AsksPlace ==
  IncludesLocatedAt(ToLowerCase(input)) \/ (Mentions("city") /\ MatchesDecimal(input))

\* C40: for every prompt runMockPrompt selects a tool that has a mock
\* implementation and gives it every parameter that implementation
\* resolves, so the run ends in neither UNKNOWN_FUNCTION nor
\* MISSING_PARAMETER (it ends in no error); the tool is WeatherFromLatLon
\* for weather with coordinates, else WeatherFromLocation for weather, else
\* LatLonToCity for a place asked by coordinates, else WebSearch with the
\* prompt as its query.
C40_MockSelectionIsExecutable ==
  (entry = "mock" /\ pc = "returned") =>
    /\ exec.c = "return" /\ exec.impl = "mock"
    /\ Len(dispatched) = 1
    /\ dispatched[1].functionName =
         Name(IF AsksWeather /\ GivesCoordinates THEN "WeatherFromLatLon"
              ELSE IF AsksWeather THEN "WeatherFromLocation"
              ELSE IF AsksPlace THEN "LatLonToCity"
              ELSE "WebSearch")
    /\ \A n \in 1..Len(ResolvedNames(ToStringText(dispatched[1].functionName)[1].v)) :
         ExactMatches(ResolvedNames(ToStringText(dispatched[1].functionName)[1].v)[n]) # {}
    /\ (~AsksWeather /\ ~AsksPlace) =>
         FirstExactValue("query") = StrV(input)

\* C40 witness: a prompt that asks the weather and a place by coordinates
C40_Witness ==
  /\ entry = "mock" /\ pc = "returned"
  /\ input = <<W("Weather"), Sp, W("located"), Sp, W("at")>>
  /\ dispatched[1].functionName = Name("WeatherFromLocation")
  /\ FirstExactValue("location") = StrV(<<W("London")>>)
=============================================================================
